---- MODULE Spec2Model ----
(***************************************************************************)
(* Model of the xc command-line client: the usage ledger (usage.jsonl),    *)
(* the cost estimator, the spend aggregator, the budget enforcer           *)
(* (budget.json), the call interceptor (the Proxy built by wrapClient)     *)
(* and the media upload orchestrator.                                      *)
(*                                                                         *)
(* Units.  Money is counted in thousandths of a dollar, so that every      *)
(* entry of COST_MAP is a whole number (0.005 dollar = 5).  Time is        *)
(* counted in hours since the epoch (3 600 000 ms = 1), the smallest of    *)
(* the program's window constants.  File sizes are counted in bytes.       *)
(***************************************************************************)
EXTENDS Integers, Sequences, FiniteSets, TLC

VARIABLES
    budgetFile,  \* ~/.xc/budget.json: <<>> when the file is absent, else <<config>>
    usageFile,   \* ~/.xc/usage.jsonl: the file's text as a sequence of tokens
    now,         \* Date.now(), in hours
    tz,          \* the local zone: hours to add to UTC to get local time
    cmd,         \* the command the running process executes, "none" between processes
    pc,          \* where the intercepted call of the running process stands
    callee,      \* the namespace and method the running process called last
    endpoint,    \* the operation identifier of the intercepted call
    events,      \* what the running process did so far, in order
    error,       \* the error the running process failed with, "none" if none
    ncmds,       \* processes started so far
    file0,       \* the ledger file as it was when the intercepted call started
    resp,        \* the response the intercepted call returned last
    up,          \* the media upload session of the running process
    out,         \* what the process that ran last reported, none while an API command runs
    procs,       \* the intercepted calls of processes that run side by side
    configFile,  \* ~/.xc/config.json: <<>> when the file is absent, else <<config>>
    accountName, \* the --account option of the running process, if any
    client       \* the SDK client the running process got from getClient, if any

vars == <<budgetFile, usageFile, now, tz, cmd, pc, callee, endpoint, events, error,
          ncmds, file0, resp, up, out, procs, configFile, accountName, client>>

(***************************************************************************)
(* Bounds of the model.                                                    *)
(***************************************************************************)
MaxCmds == 2        \* processes (CLI invocations) per behaviour
MaxFileLen == 5     \* tokens of an arbitrary ledger file
MaxEntries == 2     \* records of an arbitrary record set
Now0 == 1005        \* the clock when the model starts (hours)
MaxAdvance == 16    \* how far the clock advances (hours)
MaxCalls == 2       \* processes per slot when processes run side by side

(***************************************************************************)
(* Cost estimator (cost.ts).                                               *)
(***************************************************************************)
COST_MAP ==
    ("posts.searchRecent" :> 10) @@ ("posts.searchAll" :> 20) @@
    ("posts.create" :> 10) @@ ("users.getMe" :> 5) @@
    ("users.getByUsername" :> 5) @@ ("users.getPosts" :> 5) @@
    ("users.getTimeline" :> 5) @@ ("users.likePost" :> 5) @@
    ("users.unlikePost" :> 5) @@ ("usage.get" :> 0)

DEFAULT_COST == 5

METHOD_MAP ==
    ("posts.create" :> "POST") @@ ("users.likePost" :> "POST") @@
    ("users.unlikePost" :> "DELETE")

\* The tables are object literals: a key they do not hold is looked up in
\* Object.prototype, and only a key found nowhere gives undefined.
ObjectPrototype ==
    { "constructor", "toString", "toLocaleString", "valueOf", "hasOwnProperty",
      "isPrototypeOf", "propertyIsEnumerable", "__proto__" }

\* What the lookup of an inherited key gives: a function or an object.
Inherited(key) == "Object.prototype." \o key

\* COST_MAP[endpoint] ?? DEFAULT_COST
estimateCost_FreeByDefault(ep) ==
    IF ep \in DOMAIN COST_MAP THEN COST_MAP[ep]
    ELSE IF ep \in ObjectPrototype THEN Inherited(ep)
    ELSE 0

estimateCost(ep) ==
    IF ep \in DOMAIN COST_MAP THEN COST_MAP[ep]
    ELSE IF ep \in ObjectPrototype THEN Inherited(ep)
    ELSE DEFAULT_COST

\* METHOD_MAP[endpoint] ?? "GET"
inferMethod(ep) ==
    IF ep \in DOMAIN METHOD_MAP THEN METHOD_MAP[ep]
    ELSE IF ep \in ObjectPrototype THEN Inherited(ep)
    ELSE "GET"

(***************************************************************************)
(* The ledger file.  Its text is a sequence of tokens: a complete JSON     *)
(* object holding a usage entry ("rec"), a newline ("nl"), white space     *)
(* other than a newline ("sp"), text that is no JSON value ("junk", for    *)
(* instance a truncated object) and a JSON value that is no usage entry    *)
(* ("json", for instance null).                                            *)
(***************************************************************************)
NL == [k |-> "nl"]
SP == [k |-> "sp"]
JUNK == [k |-> "junk"]
JSONVAL == [k |-> "json"]

UsageEntry(ts, ep, m, c) ==
    [k |-> "rec", timestamp |-> ts, endpoint |-> ep, method |-> m, estimatedCost |-> c]

\* The entry logApiCall builds for a call of ep at time t.
NewEntry(ep, t) == UsageEntry(t, ep, inferMethod(ep), estimateCost(ep))

logApiCall_Overwrites(file, ep, t) == <<NewEntry(ep, t), NL>>

\* logApiCall: one write of the entry's JSON text followed by a newline.
logApiCall_NoNewline(file, ep, t) == file \o <<NewEntry(ep, t)>>

logApiCall(file, ep, t) == file \o <<NewEntry(ep, t), NL>>

\* The leading tokens of the given kinds removed.
RECURSIVE TrimLeft(_, _)
TrimLeft(s, kinds) ==
    IF s = <<>> THEN <<>>
    ELSE IF Head(s).k \in kinds THEN TrimLeft(Tail(s), kinds) ELSE s

\* The trailing tokens of the given kinds removed.
RECURSIVE TrimRight(_, _)
TrimRight(s, kinds) ==
    IF s = <<>> THEN <<>>
    ELSE IF s[Len(s)].k \in kinds THEN TrimRight(SubSeq(s, 1, Len(s) - 1), kinds) ELSE s

\* String.prototype.trim: white space and line terminators go, at both ends.
Trim(s) == TrimRight(TrimLeft(s, {"nl", "sp"}), {"nl", "sp"})

\* raw.split("\n"): the lines of a text, an empty text being one empty line.
\* The text is split by halves, so that a long ledger costs no deep recursion:
\* the last line of the front half runs on into the first line of the back half.
RECURSIVE SplitLines(_)
SplitLines(s) ==
    IF Len(s) = 0 THEN << <<>> >>
    ELSE IF Len(s) = 1 THEN (IF s[1].k = "nl" THEN << <<>>, <<>> >> ELSE <<s>>)
    ELSE CHOOSE lines \in
           { SubSeq(a, 1, Len(a) - 1) \o <<a[Len(a)] \o b[1]>> \o Tail(b) :
               a \in {SplitLines(SubSeq(s, 1, Len(s) \div 2))},
               b \in {SplitLines(SubSeq(s, Len(s) \div 2 + 1, Len(s)))} } : TRUE

\* JSON.parse(line): white space around exactly one JSON value, else it throws.
JsonText(line) == TrimRight(TrimLeft(line, {"sp"}), {"sp"})
Parses(line) == Len(JsonText(line)) = 1 /\ JsonText(line)[1].k \in {"rec", "json"}
Parsed(line) == JsonText(line)[1]

\* The loop with the try around it: the first line JSON.parse rejects ends it.
RECURSIVE ParseLines_StopAtBadLine(_)
ParseLines_StopAtBadLine(lines) ==
    IF lines = <<>> \/ ~Parses(Head(lines)) THEN <<>>
    ELSE <<Parsed(Head(lines))>> \o ParseLines_StopAtBadLine(Tail(lines))

\* The loop over the lines: push what JSON.parse returns, skip a line it rejects.
ParseLines(lines) ==
    LET accepted == SelectSeq(lines, Parses)
    IN  [i \in 1..Len(accepted) |-> Parsed(accepted[i])]

\* loadUsageLog: no file or an empty file gives no entries; otherwise every line
\* JSON.parse accepts gives one entry, and a line it rejects is skipped.  raw and
\* lines are local constants: each is computed once.
loadUsageLog(file) ==
    CHOOSE entries \in
        { IF raw = <<>> THEN <<>>
          ELSE CHOOSE parsed \in { ParseLines(lines) : lines \in {SplitLines(raw)} } : TRUE :
            raw \in {Trim(file)} } : TRUE

(***************************************************************************)
(* Spend aggregator (cost.ts).                                             *)
(***************************************************************************)
HOUR == 1
DAY == 24
WEEK == 7 * DAY
MONTH == 30 * DAY

\* The loop with the comparison turned round.
RECURSIVE SpendSince_Before(_, _)
SpendSince_Before(entries, cutoff) ==
    IF entries = <<>> THEN 0
    ELSE (IF Head(entries).timestamp <= cutoff THEN Head(entries).estimatedCost ELSE 0)
         + SpendSince_Before(Tail(entries), cutoff)

\* The loop with the boundary instant left out.
RECURSIVE SpendSince_AfterOnly(_, _)
SpendSince_AfterOnly(entries, cutoff) ==
    IF entries = <<>> THEN 0
    ELSE (IF Head(entries).timestamp > cutoff THEN Head(entries).estimatedCost ELSE 0)
         + SpendSince_AfterOnly(Tail(entries), cutoff)

\* The loop of computeSpend: the costs of the entries at or after cutoff.
RECURSIVE SpendSince(_, _)
SpendSince(entries, cutoff) ==
    IF entries = <<>> THEN 0
    ELSE (IF Head(entries).timestamp >= cutoff THEN Head(entries).estimatedCost ELSE 0)
         + SpendSince(Tail(entries), cutoff)

\* computeSpend at clock t: cutoff = Date.now() - windowMs.
computeSpend(entries, windowMs, t) == SpendSince(entries, t - windowMs)

\* The cutoff a whole day back, whatever the hour.
LocalMidnight_DayAgo(t, zone) == t - DAY

\* new Date().setHours(0, 0, 0, 0): the start of the local day t falls in.
LocalMidnight(t, zone) == t - ((t + zone) % DAY)

\* The loop of computeTodaySpend: the costs of the entries at or after cutoff.
\* The total is added up by halves, so that a long ledger costs no deep recursion.
RECURSIVE TodaySince(_, _)
TodaySince(entries, cutoff) ==
    IF Len(entries) = 0 THEN 0
    ELSE IF Len(entries) = 1
    THEN (IF entries[1].timestamp >= cutoff THEN entries[1].estimatedCost ELSE 0)
    ELSE CHOOSE total \in
           { TodaySince(front, cutoff) + TodaySince(back, cutoff) :
               front \in {SubSeq(entries, 1, Len(entries) \div 2)},
               back \in {SubSeq(entries, Len(entries) \div 2 + 1, Len(entries))} } : TRUE

\* computeTodaySpend at clock t in the given zone.
computeTodaySpend(entries, t, zone) ==
    CHOOSE total \in { TodaySince(es, LocalMidnight(t, zone)) : es \in {entries} } : TRUE

(***************************************************************************)
(* Budget configuration (budget.ts).                                       *)
(***************************************************************************)
\* loadBudget: the default when the file is absent, else the file's object.
loadBudget(file) == IF file = <<>> THEN [action |-> "warn"] ELSE file[1]

\* Number.POSITIVE_INFINITY, above every amount.
Infinity == 2147483647

\* JSON null where a number is expected; no amount is written as null.
Null == 0 - 2147483647

\* !budget.daily: the field is missing, zero or null.
NoDaily(budget) ==
    "daily" \notin DOMAIN budget \/ budget.daily = 0 \/ budget.daily = Null

\* JSON.stringify(config): a number that is not finite is written as null.
JSON_stringify(config) ==
    IF "daily" \in DOMAIN config /\ config.daily \in {Infinity, 0 - Infinity}
    THEN [config EXCEPT !.daily = Null]
    ELSE config

\* saveBudget: the file holds the JSON text of the object.
saveBudget(config) == <<JSON_stringify(config)>>

\* resetBudget: the file is removed if it exists.
resetBudget_KeepsFile(file) == file

resetBudget(file) == <<>>

\* An event of the running process: what was done, and for which operation
\* (for "answer": with which text).
Ev(e, a) == [e |-> e, a |-> a]

\* The return of checkBudget when no daily limit is set.
AdmitUnlimited_ReadsLedger ==
    [verdict |-> "admit", error |-> "none", did |-> <<"loadBudget", "loadUsageLog">>]

AdmitUnlimited == [verdict |-> "admit", error |-> "none", did |-> <<"loadBudget">>]

\* The comparison that admits a call without further ado.
WithinBudget_Strict(todaySpend, callCost, daily) == todaySpend + callCost < daily

WithinBudget_IgnoresCost(todaySpend, callCost, daily) == todaySpend <= daily

WithinBudget(todaySpend, callCost, daily) == todaySpend + callCost <= daily

\* The switch on budget.action for a call over the budget; did lists the steps
\* done so far.
Enforce_BlockWarns(action, did) ==
    IF action \in {"block", "warn"}
    THEN [verdict |-> "admit", error |-> "none", did |-> Append(did, "warn")]
    ELSE IF action = "confirm"
    THEN [verdict |-> "prompt", error |-> "none", did |-> Append(did, "prompt")]
    ELSE [verdict |-> "admit", error |-> "none", did |-> did]

Enforce_WarnFallsThrough(action, did) ==
    IF action = "block"
    THEN [verdict |-> "throw", error |-> "BudgetExceeded", did |-> did]
    ELSE IF action = "warn"
    THEN [verdict |-> "prompt", error |-> "none", did |-> did \o <<"warn", "prompt">>]
    ELSE IF action = "confirm"
    THEN [verdict |-> "prompt", error |-> "none", did |-> Append(did, "prompt")]
    ELSE [verdict |-> "admit", error |-> "none", did |-> did]

Enforce(action, did) ==
    IF action = "block"
    THEN [verdict |-> "throw", error |-> "BudgetExceeded", did |-> did]
    ELSE IF action = "warn"
    THEN [verdict |-> "admit", error |-> "none", did |-> Append(did, "warn")]
    ELSE IF action = "confirm"
    THEN [verdict |-> "prompt", error |-> "none", did |-> Append(did, "prompt")]
    ELSE [verdict |-> "admit", error |-> "none", did |-> did]

\* What checkBudget does for ep up to its return, its throw or its prompt:
\* the verdict ("admit", "throw", "prompt"), the error thrown and the steps done.
checkBudget(ep, bfile, ufile, t, zone) ==
    LET budget == loadBudget(bfile) IN
    IF NoDaily(budget) THEN AdmitUnlimited
    ELSE
      LET entries == loadUsageLog(ufile)
          todaySpend == computeTodaySpend(entries, t, zone)
          callCost == estimateCost(ep)
          read == <<"loadBudget", "loadUsageLog">>
      IN  IF WithinBudget(todaySpend, callCost, budget.daily)
          THEN [verdict |-> "admit", error |-> "none", did |-> read]
          ELSE Enforce(budget.action, read)

\* The answer that never stops the call.
confirmPrompt_AlwaysYes(answer) == TRUE

\* confirmPrompt resolves to answer.toLowerCase() === "y".
confirmPrompt(answer) == answer \in {"y", "Y"}

(***************************************************************************)
(* The call interceptor (wrapClient).                                      *)
(***************************************************************************)
\* The namespaces and methods of the SDK client the commands call.
Operations ==
    { <<"posts", "create">>, <<"posts", "searchAll">>, <<"media", "upload">> }

EndpointOf_MethodOnly(ns, op) == op

\* `${prop}.${nsProp}`
EndpointOf(ns, op) == ns \o "." \o op

\* The wrapper up to the end of the synchronous part of checkBudget.
Intercept(ns, op, sofar) ==
    LET ep == EndpointOf(ns, op)
    IN  \E r \in {checkBudget(ep, budgetFile, usageFile, now, tz)} :
        /\ callee' = [ns |-> ns, op |-> op]
        /\ endpoint' = ep
        /\ file0' = usageFile
        /\ events' = sofar \o <<Ev("invoke", ep)>> \o [i \in 1..Len(r.did) |-> Ev(r.did[i], ep)]
        /\ pc' = CASE r.verdict = "admit" -> "admitted"
                   [] r.verdict = "prompt" -> "prompt"
                   [] OTHER -> "threw"
        /\ error' = r.error

\* The operator answers the prompt; checkBudget returns or throws.
Answer(answer) ==
    /\ pc = "prompt"
    /\ IF confirmPrompt(answer)
       THEN pc' = "admitted" /\ error' = error
       ELSE pc' = "threw" /\ error' = "UserCancelled"
    /\ events' = Append(events, Ev("answer", answer))
    /\ UNCHANGED <<budgetFile, usageFile, now, tz, cmd, callee, endpoint, ncmds, file0,
                   resp, up, out, procs,
                   configFile, accountName, client>>

\* After checkBudget returned: logApiCall(endpoint), then the SDK method is applied.
LogAndDispatch ==
    /\ pc = "admitted"
    /\ usageFile' = logApiCall(usageFile, endpoint, now)
    /\ events' = events \o <<Ev("logApiCall", endpoint), Ev("dispatch", endpoint)>>
    /\ pc' = "inflight"
    /\ UNCHANGED <<budgetFile, now, tz, cmd, callee, endpoint, error, ncmds, file0,
                   resp, up, out, procs,
                   configFile, accountName, client>>

\* What the API may answer to an operation: a failure (the promise rejects), or
\* a response, which may carry an identifier (data.id) and processing
\* information (data.processingInfo.state).
\* processingInfo.error?.message is absent.
NoMessage == "undefined"

NoResponse == [ok |-> FALSE, id |-> FALSE, info |-> "none", message |-> NoMessage]
Response(id, info) == [ok |-> TRUE, id |-> id, info |-> info, message |-> NoMessage]

Responses(ep) ==
    {NoResponse} \cup
    IF ep \in {"media.upload", "media.initializeUpload", "users.getMe"}
    THEN {Response(TRUE, "none"), Response(FALSE, "none")}
    ELSE IF ep = "media.finalizeUpload"
    THEN {Response(id, info) : id \in BOOLEAN, info \in {"none", "pending"}}
    ELSE IF ep = "media.getUploadStatus"
    THEN {Response(TRUE, info) :
              info \in {"none", "pending", "in_progress", "succeeded", "failed"}}
         \cup {[Response(TRUE, "failed") EXCEPT !.message = "bad codec"]}
    ELSE {Response(FALSE, "none")}

\* The SDK method's promise settles: a response, or an HTTP-style failure.
Respond(r) ==
    /\ pc = "inflight"
    /\ resp' = r
    /\ IF r.ok THEN pc' = "returned" /\ error' = error
               ELSE pc' = "failed" /\ error' = "ApiError"
    /\ UNCHANGED <<budgetFile, usageFile, now, tz, cmd, callee, endpoint, events,
                   ncmds, file0, up, out, procs,
                   configFile, accountName, client>>

(***************************************************************************)
(* Commands.  Each runs in a process of its own, one at a time.            *)
(***************************************************************************)
\* No upload under way.
NoUpload ==
    [pc |-> "none", ext |-> "", category |-> "", size |-> 0, auth |-> "", bytesRead |-> 0,
     segmentIndex |-> 0, segments |-> <<>>, fetched |-> "", attempts |-> 0]

NoCallee == [ns |-> "", op |-> ""]

\* A process that has reported nothing yet.
NoOutput == [kind |-> "none"]

\* A field or an argument that is absent.
Undefined == "undefined"

\* A process that holds no client.
NoClient == [kind |-> "none", token |-> Undefined, wrapped |-> FALSE]

\* The slots of processes that run side by side.
Procs == {1, 2}

\* A slot with no process in it: seen is the ledger file as the process read
\* it in checkBudget, wrote the entries it appended, calls the processes the
\* slot has held.
NoProc ==
    [pc |-> "idle", endpoint |-> "", seen |-> <<>>, wrote |-> <<>>, error |-> "none",
     calls |-> 0]

NoProcs == [p \in Procs |-> NoProc]

\* A command that issues one call of the wrapped client (post, usage, search ...).
ApiCommand(ns, op) ==
    /\ cmd = "none"
    /\ ncmds < MaxCmds
    /\ cmd' = "api"
    /\ ncmds' = ncmds + 1
    /\ Intercept(ns, op, <<>>)
    /\ out' = NoOutput
    /\ UNCHANGED <<budgetFile, usageFile, now, tz, resp, up, procs,
                   configFile, accountName, client>>

\* The command prints its result or its error, and the process exits.
ApiExit ==
    /\ cmd = "api"
    /\ pc \in {"returned", "failed", "threw"}
    /\ cmd' = "none"
    /\ pc' = "idle"
    /\ callee' = NoCallee
    /\ endpoint' = ""
    /\ events' = <<>>
    /\ error' = "none"
    /\ file0' = <<>>
    /\ resp' = NoResponse
    /\ UNCHANGED <<budgetFile, usageFile, now, tz, ncmds, up, out, procs,
                   configFile, accountName, client>>

(***************************************************************************)
(* parseFloat.  A text is a sequence of characters.  The number read is    *)
(* the longest prefix, after leading blanks, that is a decimal literal:    *)
(* a sign, then Infinity or digits with a fraction.  Amounts are counted   *)
(* in thousandths, so fraction digits after the third are cut, and no      *)
(* exponent is read: the texts of the model have neither.                  *)
(***************************************************************************)
DecimalDigits == {"0", "1", "2", "3", "4", "5", "6", "7", "8", "9"}

DigitValue(c) ==
    CASE c = "0" -> 0 [] c = "1" -> 1 [] c = "2" -> 2 [] c = "3" -> 3 [] c = "4" -> 4
      [] c = "5" -> 5 [] c = "6" -> 6 [] c = "7" -> 7 [] c = "8" -> 8 [] c = "9" -> 9

\* The text without its leading white space.
RECURSIVE TrimStart(_)
TrimStart(text) ==
    IF text # <<>> /\ Head(text) = " " THEN TrimStart(Tail(text)) ELSE text

\* How many digits the text begins with.
RECURSIVE LeadingDigits(_)
LeadingDigits(text) ==
    IF text = <<>> \/ Head(text) \notin DecimalDigits THEN 0
    ELSE 1 + LeadingDigits(Tail(text))

\* The value of a run of digits.
RECURSIVE DigitsValue(_)
DigitsValue(digits) ==
    IF digits = <<>> THEN 0
    ELSE 10 * DigitsValue(SubSeq(digits, 1, Len(digits) - 1)) + DigitValue(digits[Len(digits)])

\* The value of the digits after the point, in thousandths.
FractionValue(digits) == DigitsValue(SubSeq(digits \o <<"0", "0", "0">>, 1, 3))

INFINITY == <<"I", "n", "f", "i", "n", "i", "t", "y">>

StartsWith(text, prefix) ==
    Len(text) >= Len(prefix) /\ SubSeq(text, 1, Len(prefix)) = prefix

NaN == [num |-> FALSE, val |-> 0]

parseFloat(text) ==
    LET trimmed == TrimStart(text)
        signed == trimmed # <<>> /\ Head(trimmed) \in {"+", "-"}
        sign == IF signed /\ Head(trimmed) = "-" THEN 0 - 1 ELSE 1
        body == IF signed THEN Tail(trimmed) ELSE trimmed
        n == LeadingDigits(body)
        rest == SubSeq(body, n + 1, Len(body))
        point == rest # <<>> /\ Head(rest) = "."
        f == IF point THEN LeadingDigits(Tail(rest)) ELSE 0
        magnitude == 1000 * DigitsValue(SubSeq(body, 1, n))
                     + (IF point THEN FractionValue(SubSeq(rest, 2, f + 1)) ELSE 0)
    IN  IF StartsWith(body, INFINITY) THEN [num |-> TRUE, val |-> sign * Infinity]
        ELSE IF n = 0 /\ f = 0 THEN NaN
        ELSE [num |-> TRUE, val |-> sign * magnitude]

\* What the operator passes as --daily in the scenarios of the ledger:
\* "0.02", "2.00" and "abc".
DailyArgs ==
    { <<"0", ".", "0", "2">>, <<"2", ".", "0", "0">>, <<"a", "b", "c">> }

VALID_ACTIONS == {"block", "warn", "confirm"}

ActionArgs == VALID_ACTIONS \cup {"stop"}

\* What a budget subcommand leaves behind: its exit code.
Exit(code) == [kind |-> "budget", exit |-> code]

\* isNaN(daily) || daily <= 0
BadDaily(daily) == ~daily.num \/ daily.val <= 0

\* xc budget set --daily <amount> --action <action>
BudgetSet(amount, action) ==
    /\ cmd = "none"
    /\ LET daily == parseFloat(amount)
       IN  IF BadDaily(daily) THEN out' = Exit(1) /\ UNCHANGED budgetFile
           ELSE IF action \notin VALID_ACTIONS THEN out' = Exit(1) /\ UNCHANGED budgetFile
           ELSE /\ budgetFile' = saveBudget([daily |-> daily.val, action |-> action])
                /\ out' = Exit(0)
    /\ UNCHANGED <<usageFile, now, tz, cmd, pc, callee, endpoint, events, error, ncmds,
                   file0, resp, up, procs,
                   configFile, accountName, client>>

\* xc budget reset
BudgetReset ==
    /\ cmd = "none"
    /\ budgetFile' = resetBudget(budgetFile)
    /\ out' = Exit(0)
    /\ UNCHANGED <<usageFile, now, tz, cmd, pc, callee, endpoint, events, error, ncmds,
                   file0, resp, up, procs,
                   configFile, accountName, client>>

\* Math.max
Max(a, b) == IF a >= b THEN a ELSE b

\* ((todaySpend / config.daily) * 100).toFixed(0): the nearest whole number.
Percent(todaySpend, daily) == (200 * todaySpend + daily) \div (2 * daily)

\* xc budget show
BudgetShow ==
    /\ cmd = "none"
    /\ LET config == loadBudget(budgetFile)
           entries == loadUsageLog(usageFile)
           todaySpend == computeTodaySpend(entries, now, tz)
       IN  out' = IF NoDaily(config) THEN [kind |-> "show", configured |-> FALSE]
                  ELSE [kind |-> "show", configured |-> TRUE, daily |-> config.daily,
                        spent |-> todaySpend, pct |-> Percent(todaySpend, config.daily),
                        remaining |-> Max(0, config.daily - todaySpend),
                        action |-> config.action]
    /\ UNCHANGED <<budgetFile, usageFile, now, tz, cmd, pc, callee, endpoint, events, error,
                   ncmds, file0, resp, up, procs,
                   configFile, accountName, client>>

\* Time passes between two processes.
TickSteps == {8 * HOUR}

Tick(d) ==
    /\ cmd = "none"
    /\ now + d <= Now0 + MaxAdvance
    /\ now' = now + d
    /\ UNCHANGED <<budgetFile, usageFile, tz, cmd, pc, callee, endpoint, events, error,
                   ncmds, file0, resp, up, out, procs,
                   configFile, accountName, client>>

(***************************************************************************)
(* The program: budget commands and API commands over one ledger.          *)
(***************************************************************************)
\* The zone the processes run in: five hours behind UTC.
LocalZone == 0 - 5

\* A ledger holding one entry of today that brings today's spend to 1.99 dollar.
SeedLedger == <<UsageEntry(Now0, "seed.spend", "GET", 1990), NL>>

Idle ==
    /\ cmd = "none"
    /\ pc = "idle"
    /\ callee = NoCallee
    /\ endpoint = ""
    /\ events = <<>>
    /\ error = "none"
    /\ ncmds = 0
    /\ file0 = <<>>
    /\ resp = NoResponse
    /\ up = NoUpload
    /\ out = NoOutput
    /\ procs = NoProcs
    /\ accountName = Undefined
    /\ client = NoClient

Init ==
    /\ budgetFile \in {<<>>, <<[action |-> "block"]>>}
    /\ usageFile \in {<<>>, SeedLedger}
    /\ now = Now0
    /\ tz = LocalZone
    /\ configFile = <<>>
    /\ Idle

Next ==
    \/ \E o \in Operations : ApiCommand(o[1], o[2])
    \/ \E a \in {"y", "Y", "n", ""} : Answer(a)
    \/ LogAndDispatch
    \/ \E r \in Responses(endpoint) : Respond(r)
    \/ ApiExit
    \/ \E d \in DailyArgs, a \in ActionArgs : BudgetSet(d, a)
    \/ BudgetReset
    \/ \E d \in TickSteps : Tick(d)

Spec == Init /\ [][Next]_vars

(***************************************************************************)
(* Reading an arbitrary ledger file.                                       *)
(***************************************************************************)
\* loadUsageLog() as the cost and budget commands call it.
LoadAll ==
    /\ cmd = "none"
    /\ out' = [kind |-> "entries", entries |-> loadUsageLog(usageFile)]
    /\ UNCHANGED <<budgetFile, usageFile, now, tz, cmd, pc, callee, endpoint, events,
                   error, ncmds, file0, resp, up, procs,
                   configFile, accountName, client>>

\* The tokens an arbitrary ledger file is made of.
LedgerTokens ==
    { NL, SP, JUNK, JSONVAL, NewEntry("posts.create", Now0), NewEntry("usage.get", Now0 - DAY) }

Texts(n) == UNION { [1..m -> LedgerTokens] : m \in 0..n }

InitLedger ==
    /\ budgetFile = <<>>
    /\ usageFile \in Texts(MaxFileLen)
    /\ now = Now0
    /\ tz = LocalZone
    /\ configFile = <<>>
    /\ Idle

NextLedger == LoadAll

SpecLedger == InitLedger /\ [][NextLedger]_vars

(***************************************************************************)
(* Aggregating an arbitrary record set.                                    *)
(***************************************************************************)
\* xc cost --json: the four standard windows over the whole ledger.
CostSummary ==
    /\ cmd = "none"
    /\ LET entries == loadUsageLog(usageFile)
       IN  IF Len(entries) = 0
           THEN out' = [kind |-> "empty"]
           ELSE out' = [kind |-> "summary",
                        h1 |-> computeSpend(entries, HOUR, now),
                        h24 |-> computeSpend(entries, DAY, now),
                        d7 |-> computeSpend(entries, WEEK, now),
                        d30 |-> computeSpend(entries, MONTH, now),
                        totalRequests |-> Len(entries),
                        at |-> now]
    /\ UNCHANGED <<budgetFile, usageFile, now, tz, cmd, pc, callee, endpoint, events,
                   error, ncmds, file0, resp, up, procs,
                   configFile, accountName, client>>

\* How old the entries of an arbitrary record set are: on and around the edges
\* of the standard windows.
AgeSamples == { 0, HOUR, HOUR + 1, DAY + 1, WEEK, MONTH, MONTH + 1 }

EntrySamples ==
    { NewEntry(ep, Now0 - age) : ep \in {"users.getMe", "posts.searchAll"}, age \in AgeSamples }

\* The ledger file the program writes for the given entries, one per line.
FileOf(entries) == [i \in 1..(2 * Len(entries)) |-> IF i % 2 = 1 THEN entries[(i + 1) \div 2] ELSE NL]

InitAgg ==
    /\ budgetFile = <<>>
    /\ usageFile \in { FileOf(es) : es \in UNION { [1..m -> EntrySamples] : m \in 0..MaxEntries } }
    /\ now = Now0
    /\ tz = LocalZone
    /\ configFile = <<>>
    /\ Idle

NextAgg ==
    \/ CostSummary
    \/ \E d \in TickSteps : Tick(d)

SpecAgg == InitAgg /\ [][NextAgg]_vars

(***************************************************************************)
(* The media upload orchestrator (media.ts).                               *)
(***************************************************************************)
MIME_MAP ==
    (".jpg" :> "image/jpeg") @@ (".jpeg" :> "image/jpeg") @@ (".png" :> "image/png") @@
    (".gif" :> "image/gif") @@ (".bmp" :> "image/bmp") @@ (".webp" :> "image/webp") @@
    (".tiff" :> "image/tiff") @@ (".mp4" :> "video/mp4") @@ (".webm" :> "video/webm") @@
    (".mov" :> "video/quicktime") @@ (".ts" :> "video/mp2t")

CATEGORY_MAP_GifIsImage ==
    (".jpg" :> "tweet_image") @@ (".jpeg" :> "tweet_image") @@ (".png" :> "tweet_image") @@
    (".bmp" :> "tweet_image") @@ (".webp" :> "tweet_image") @@ (".tiff" :> "tweet_image") @@
    (".gif" :> "tweet_image") @@ (".mp4" :> "tweet_video") @@ (".webm" :> "tweet_video") @@
    (".mov" :> "tweet_video") @@ (".ts" :> "tweet_video")

CATEGORY_MAP ==
    (".jpg" :> "tweet_image") @@ (".jpeg" :> "tweet_image") @@ (".png" :> "tweet_image") @@
    (".bmp" :> "tweet_image") @@ (".webp" :> "tweet_image") @@ (".tiff" :> "tweet_image") @@
    (".gif" :> "tweet_gif") @@ (".mp4" :> "tweet_video") @@ (".webm" :> "tweet_video") @@
    (".mov" :> "tweet_video") @@ (".ts" :> "tweet_video")

MiB == 1024 * 1024

SIZE_LIMITS ==
    ("tweet_image" :> 5 * MiB) @@ ("tweet_gif" :> 15 * MiB) @@ ("tweet_video" :> 512 * MiB)

CHUNK_SIZE == 5 * MiB

maxAttempts == 60

\* path.extname(filePath).toLowerCase(), for the extensions the model uploads.
ExtSamples == {".png", ".PNG", ".gif", ".mp4", ".exe"}
toLowerCase(ext) == IF ext = ".PNG" THEN ".png" ELSE ext

\* File sizes on and around the ceilings and the chunk size.
SizeSamples == { 0, 1, 4 * MiB, 5 * MiB, 5 * MiB + 1, 15 * MiB, 15 * MiB + 1, 20 * MiB, 600 * MiB }

\* The account's credential: OAuth 2.0 with an access token, or a static bearer token.
AuthSamples == {"oauth2", "bearer"}

Min_TakesFirst(a, b) == a

Min(a, b) == IF a <= b THEN a ELSE b

\* fileSize > sizeLimit
TooLarge_AtLimit(fileSize, sizeLimit) == fileSize >= sizeLimit

TooLarge(fileSize, sizeLimit) == fileSize > sizeLimit

\* !info || info.state === "succeeded"
ProcessingOver_OnlyAbsent(info) == info = "none"

ProcessingOver(info) == info \in {"none", "succeeded"}

\* `Media processing failed: ${info.error?.message ?? "unknown error"}`
ProcessingFailed_DropsMessage(message) == "ProcessingFailed: unknown error"

ProcessingFailed(message) ==
    "ProcessingFailed: " \o (IF message = NoMessage THEN "unknown error" ELSE message)

\* The upload throws: the command will report the error.
UploadThrows(u, err) ==
    /\ up' = [u EXCEPT !.pc = "failed"]
    /\ error' = err
    /\ pc' = "idle"
    /\ UNCHANGED <<callee, endpoint, events, file0>>

\* The upload returns the media identifier.
UploadReturns(u) ==
    /\ up' = [u EXCEPT !.pc = "done"]
    /\ pc' = "idle"
    /\ UNCHANGED <<callee, endpoint, events, error, file0>>

\* uploadMedia up to its first call of the client: the extension and the size
\* are checked, then the one-shot or the chunked upload starts.
UploadStart(ext, size, auth) ==
    /\ cmd = "none"
    /\ ncmds = 0
    /\ cmd' = "upload"
    /\ ncmds' = ncmds + 1
    /\ LET e == toLowerCase(ext)
           category == IF e \in DOMAIN CATEGORY_MAP THEN CATEGORY_MAP[e] ELSE "tweet_image"
           sizeLimit == IF category \in DOMAIN SIZE_LIMITS THEN SIZE_LIMITS[category]
                        ELSE SIZE_LIMITS["tweet_image"]
           u == [NoUpload EXCEPT !.ext = ext, !.category = category, !.size = size,
                                 !.auth = auth]
       IN  IF e \notin DOMAIN MIME_MAP THEN UploadThrows(u, "UnsupportedType")
           ELSE IF TooLarge(size, sizeLimit) THEN UploadThrows(u, "FileTooLarge")
           ELSE IF category = "tweet_image"
           THEN up' = [u EXCEPT !.pc = "oneshot"] /\ Intercept("media", "upload", <<>>)
           ELSE up' = [u EXCEPT !.pc = "init"] /\ Intercept("media", "initializeUpload", <<>>)
    /\ out' = NoOutput
    /\ UNCHANGED <<budgetFile, usageFile, now, tz, resp, procs,
                   configFile, accountName, client>>

\* oneShotUpload after client.media.upload settled.
AfterOneShot ==
    /\ up.pc = "oneshot"
    /\ pc \in {"returned", "failed", "threw"}
    /\ IF pc # "returned" THEN UploadThrows(up, error)
       ELSE IF ~resp.id THEN UploadThrows(up, "UploadFailed")
       ELSE UploadReturns(up)
    /\ UNCHANGED <<budgetFile, usageFile, now, tz, cmd, ncmds, resp, out, procs,
                   configFile, accountName, client>>

\* The head of the APPEND loop, then FINALIZE: while bytes are left the next
\* segment goes out with fetch; after the last one client.media.finalizeUpload
\* is called.
NextSegment(u) ==
    IF u.bytesRead < u.size
    THEN /\ up' = [u EXCEPT !.pc = "append", !.segments = Append(@, u.segmentIndex),
                            !.fetched = ""]
         /\ events' = Append(events, Ev("fetch", "media.append"))
         /\ pc' = "idle"
         /\ UNCHANGED <<callee, endpoint, error, file0>>
    ELSE /\ up' = [u EXCEPT !.pc = "finalize"]
         /\ Intercept("media", "finalizeUpload", events)

\* chunkedUpload going on without a media identifier.
AfterInit_IgnoresMissingId ==
    /\ up.pc = "init"
    /\ pc \in {"returned", "failed", "threw"}
    /\ IF pc # "returned" THEN UploadThrows(up, error)
       ELSE IF up.auth # "oauth2" THEN UploadThrows(up, "NoAccessToken")
       ELSE NextSegment(up)
    /\ UNCHANGED <<budgetFile, usageFile, now, tz, cmd, ncmds, resp, out, procs,
                   configFile, accountName, client>>

\* chunkedUpload after client.media.initializeUpload settled.
AfterInit ==
    /\ up.pc = "init"
    /\ pc \in {"returned", "failed", "threw"}
    /\ IF pc # "returned" THEN UploadThrows(up, error)
       ELSE IF ~resp.id THEN UploadThrows(up, "UploadInitFailed")
       ELSE IF up.auth # "oauth2" THEN UploadThrows(up, "NoAccessToken")
       ELSE NextSegment(up)
    /\ UNCHANGED <<budgetFile, usageFile, now, tz, cmd, ncmds, resp, out, procs,
                   configFile, accountName, client>>

\* The fetch of an APPEND segment settles: resp.ok, an HTTP error status, or a
\* rejected promise.
AppendResponse_IgnoresStatus(r) ==
    /\ up.pc = "append"
    /\ LET u == [up EXCEPT !.fetched = r]
           chunkLen == Min(CHUNK_SIZE, up.size - up.bytesRead)
       IN  IF r = "net" THEN UploadThrows(u, "NetworkError")
           ELSE NextSegment([u EXCEPT !.bytesRead = @ + chunkLen, !.segmentIndex = @ + 1])
    /\ UNCHANGED <<budgetFile, usageFile, now, tz, cmd, ncmds, resp, out, procs,
                   configFile, accountName, client>>

AppendResponse(r) ==
    /\ up.pc = "append"
    /\ LET u == [up EXCEPT !.fetched = r]
           chunkLen == Min(CHUNK_SIZE, up.size - up.bytesRead)
       IN  IF r = "http" THEN UploadThrows(u, "AppendFailed")
           ELSE IF r = "net" THEN UploadThrows(u, "NetworkError")
           ELSE NextSegment([u EXCEPT !.bytesRead = @ + chunkLen, !.segmentIndex = @ + 1])
    /\ UNCHANGED <<budgetFile, usageFile, now, tz, cmd, ncmds, resp, out, procs,
                   configFile, accountName, client>>

\* The head of the loop of waitForProcessing: another status query while
\* attempts are left, else the time-out.
NextStatus_OneMore(u) ==
    IF u.attempts <= maxAttempts
    THEN up' = [u EXCEPT !.pc = "status"] /\ Intercept("media", "getUploadStatus", events)
    ELSE UploadThrows(u, "ProcessingTimeout")

NextStatus(u) ==
    IF u.attempts < maxAttempts
    THEN up' = [u EXCEPT !.pc = "status"] /\ Intercept("media", "getUploadStatus", events)
    ELSE UploadThrows(u, "ProcessingTimeout")

\* chunkedUpload polling for videos only.
AfterFinalize_VideoOnly ==
    /\ up.pc = "finalize"
    /\ pc \in {"returned", "failed", "threw"}
    /\ IF pc # "returned" THEN UploadThrows(up, error)
       ELSE IF up.category = "tweet_video" THEN NextStatus(up)
       ELSE UploadReturns(up)
    /\ UNCHANGED <<budgetFile, usageFile, now, tz, cmd, ncmds, resp, out, procs,
                   configFile, accountName, client>>

\* chunkedUpload after client.media.finalizeUpload settled.
AfterFinalize ==
    /\ up.pc = "finalize"
    /\ pc \in {"returned", "failed", "threw"}
    /\ IF pc # "returned" THEN UploadThrows(up, error)
       ELSE IF up.category = "tweet_video" \/ resp.info # "none" THEN NextStatus(up)
       ELSE UploadReturns(up)
    /\ UNCHANGED <<budgetFile, usageFile, now, tz, cmd, ncmds, resp, out, procs,
                   configFile, accountName, client>>

\* waitForProcessing without the retry: on a pending or in-progress answer the
\* loop waits and never asks again.
AfterStatus_NeverAsksAgain ==
    /\ up.pc = "status"
    /\ pc \in {"returned", "failed", "threw"}
    /\ IF pc # "returned" THEN UploadThrows(up, error)
       ELSE IF ProcessingOver(resp.info) THEN UploadReturns(up)
       ELSE resp.info = "failed" /\ UploadThrows(up, ProcessingFailed(resp.message))
    /\ UNCHANGED <<budgetFile, usageFile, now, tz, cmd, ncmds, resp, out, procs,
                   configFile, accountName, client>>

\* waitForProcessing after client.media.getUploadStatus settled.
AfterStatus ==
    /\ up.pc = "status"
    /\ pc \in {"returned", "failed", "threw"}
    /\ IF pc # "returned" THEN UploadThrows(up, error)
       ELSE IF ProcessingOver(resp.info) THEN UploadReturns(up)
       ELSE IF resp.info = "failed" THEN UploadThrows(up, ProcessingFailed(resp.message))
       ELSE NextStatus([up EXCEPT !.attempts = @ + 1])
    /\ UNCHANGED <<budgetFile, usageFile, now, tz, cmd, ncmds, resp, out, procs,
                   configFile, accountName, client>>

\* The command prints the media identifier or the error, and the process exits.
UploadExit ==
    /\ cmd = "upload"
    /\ up.pc \in {"done", "failed"}
    /\ cmd' = "none"
    /\ pc' = "idle"
    /\ callee' = NoCallee
    /\ endpoint' = ""
    /\ events' = <<>>
    /\ error' = "none"
    /\ file0' = <<>>
    /\ resp' = NoResponse
    /\ up' = NoUpload
    /\ UNCHANGED <<budgetFile, usageFile, now, tz, ncmds, out, procs,
                   configFile, accountName, client>>

\* One `xc media upload` process, under no budget, under a blocking budget and
\* under a confirming budget of 0.01 dollar a day.
InitUpload ==
    /\ budgetFile \in { <<>>, saveBudget([daily |-> 10, action |-> "block"]),
                         saveBudget([daily |-> 10, action |-> "confirm"]) }
    /\ usageFile = <<>>
    /\ now = Now0
    /\ tz = LocalZone
    /\ configFile = <<>>
    /\ Idle

NextUpload ==
    \/ \E e \in ExtSamples, n \in SizeSamples, a \in AuthSamples : UploadStart(e, n, a)
    \/ \E a \in {"y", "n"} : Answer(a)
    \/ LogAndDispatch
    \/ \E r \in Responses(endpoint) : Respond(r)
    \/ AfterOneShot
    \/ AfterInit
    \/ \E r \in {"ok", "http", "net"} : AppendResponse(r)
    \/ AfterFinalize
    \/ AfterStatus
    \/ UploadExit

SpecUpload == InitUpload /\ [][NextUpload]_vars

(***************************************************************************)
(* The budget configuration as a store: saveBudget, loadBudget and         *)
(* resetBudget called one after the other on one budget file.              *)
(***************************************************************************)
\* The configurations a caller may save: with and without a daily limit.
ConfigSamples ==
    {[action |-> a] : a \in VALID_ACTIONS} \cup
    {[daily |-> d, action |-> a] : d \in {5, 10, 20, 2000, 5000, 100000}, a \in VALID_ACTIONS}

\* What the call before the last one was, for the record of loadBudget.
LastCall == IF out.kind = "none" THEN [kind |-> "none"] ELSE [kind |-> out.kind, config |-> out.config]

\* saveBudget(config)
CallSaveBudget(config) ==
    /\ cmd = "none"
    /\ budgetFile' = saveBudget(config)
    /\ out' = [kind |-> "saveBudget", config |-> config]
    /\ UNCHANGED <<usageFile, now, tz, cmd, pc, callee, endpoint, events, error, ncmds,
                   file0, resp, up, procs,
                   configFile, accountName, client>>

\* loadBudget(): out holds the configuration returned and the call before.
CallLoadBudget ==
    /\ cmd = "none"
    /\ out' = [kind |-> "loadBudget", config |-> loadBudget(budgetFile), last |-> LastCall]
    /\ UNCHANGED <<budgetFile, usageFile, now, tz, cmd, pc, callee, endpoint, events,
                   error, ncmds, file0, resp, up, procs,
                   configFile, accountName, client>>

\* resetBudget(): out holds the configuration that was in force before.
CallResetBudget ==
    /\ cmd = "none"
    /\ budgetFile' = resetBudget(budgetFile)
    /\ out' = [kind |-> "resetBudget", config |-> loadBudget(budgetFile)]
    /\ UNCHANGED <<usageFile, now, tz, cmd, pc, callee, endpoint, events, error, ncmds,
                   file0, resp, up, procs,
                   configFile, accountName, client>>

\* No budget was ever configured.
InitPolicy ==
    /\ budgetFile = <<>>
    /\ usageFile = <<>>
    /\ now = Now0
    /\ tz = LocalZone
    /\ configFile = <<>>
    /\ Idle

NextPolicy ==
    \/ \E c \in ConfigSamples : CallSaveBudget(c)
    \/ CallLoadBudget
    \/ CallResetBudget

SpecPolicy == InitPolicy /\ [][NextPolicy]_vars

(***************************************************************************)
(* The cost estimator applied to operation identifiers.                    *)
(***************************************************************************)
\* Names of namespaces and of methods of the SDK client, of properties every
\* object has among them.
NamespaceSamples ==
    { "posts", "users", "usage", "media", "lists", "spaces", "constructor", "toString" }

MethodSamples ==
    { "create", "searchRecent", "searchAll", "getMe", "getByUsername", "getPosts",
      "getTimeline", "likePost", "unlikePost", "get", "upload", "initializeUpload",
      "finalizeUpload", "getUploadStatus", "constructor", "valueOf" }

\* estimateCost(endpoint) and inferMethod(endpoint), as logApiCall calls them
\* for the operation identifier the wrapper built.
Estimate(ns, op) ==
    /\ cmd = "none"
    /\ LET ep == EndpointOf(ns, op)
       IN  out' = [kind |-> "estimate", endpoint |-> ep, estimatedCost |-> estimateCost(ep),
                   method |-> inferMethod(ep), at |-> now]
    /\ UNCHANGED <<budgetFile, usageFile, now, tz, cmd, pc, callee, endpoint, events,
                   error, ncmds, file0, resp, up, procs,
                   configFile, accountName, client>>

InitCost ==
    /\ budgetFile = <<>>
    /\ usageFile = <<>>
    /\ now = Now0
    /\ tz = LocalZone
    /\ configFile = <<>>
    /\ Idle

NextCost ==
    \/ \E ns \in NamespaceSamples, op \in MethodSamples : Estimate(ns, op)
    \/ \E d \in TickSteps : Tick(d)

SpecCost == InitCost /\ [][NextCost]_vars

(***************************************************************************)
(* The budget subcommands by themselves, over what an operator may type.   *)
(***************************************************************************)
\* Texts for --daily: "0", "Infinity", "-Infinity", "2abc", "-5", "", " 2",
\* ".5", "5.", "+2", "0.00", "100", "0.005", "1.5", and those of DailyArgs.
AmountSamples ==
    DailyArgs \cup
    { <<"0">>, INFINITY, <<"-">> \o INFINITY, <<"2", "a", "b", "c">>, <<"-", "5">>, <<>>,
      <<" ", "2">>, <<".", "5">>, <<"5", ".">>, <<"+", "2">>, <<"0", ".", "0", "0">>,
      <<"1", "0", "0">>, <<"0", ".", "0", "0", "5">>, <<"1", ".", "5">> }

InitBudget ==
    /\ budgetFile = <<>>
    /\ usageFile \in {<<>>, SeedLedger}
    /\ now = Now0
    /\ tz = LocalZone
    /\ configFile = <<>>
    /\ Idle

NextBudget ==
    \/ \E amount \in AmountSamples, action \in ActionArgs : BudgetSet(amount, action)
    \/ BudgetReset
    \/ BudgetShow

SpecBudget == InitBudget /\ [][NextBudget]_vars

(***************************************************************************)
(* Accounts (config.ts) and the client built from them (api.ts).  The      *)
(* times of a credential are counted in seconds since the epoch.  Every    *)
(* number the program stores in config.json is finite, and a field that is *)
(* undefined reads back as absent, so the file holds the object as it is.  *)
(***************************************************************************)
\* !value of an optional string
Truthy(value) == value # Undefined /\ value # ""

\* Date.now() at clock t, in seconds.
DateNow(t) == 3600 * t

\* No accounts at all.
NoAccounts == [n \in {} |-> Undefined]

\* getAccount found nothing.
NoAccount == [name |-> Undefined]

\* loadConfig: the default when the file is absent, else the file's object.
loadConfig(file) ==
    IF file = <<>> THEN [defaultAccount |-> "default", accounts |-> NoAccounts]
    ELSE file[1]

saveConfig(config) == <<config>>

\* getAccount(name): the account called name ?? config.defaultAccount.
getAccount(file, name) ==
    LET config == loadConfig(file)
        resolved == IF name = Undefined THEN config.defaultAccount ELSE name
    IN  IF resolved \in DOMAIN config.accounts THEN config.accounts[resolved]
        ELSE NoAccount

\* setAccount(name, account): config.accounts[name] = account, and the file is
\* written back.
setAccount(file, name, account) ==
    LET config == loadConfig(file)
        accounts == [n \in DOMAIN config.accounts \cup {name} |->
                        IF n = name THEN account ELSE config.accounts[n]]
    IN  saveConfig([config EXCEPT !.accounts = accounts])

\* What the token endpoint answers to a refresh: a rejection, or tokens with a
\* lifetime in seconds and, maybe, a new refresh token.
Rejected ==
    [ok |-> FALSE, access_token |-> Undefined, refresh_token |-> Undefined, expires_in |-> 0]

RefreshAnswers ==
    { Rejected,
      [ok |-> TRUE, access_token |-> "at1", refresh_token |-> "rt1", expires_in |-> 7200],
      [ok |-> TRUE, access_token |-> "at1", refresh_token |-> Undefined, expires_in |-> 30] }

\* refreshAccessToken({clientId, refreshToken}) for an answer with tokens.
refreshAccessToken(refreshToken, tokens, t) ==
    [accessToken |-> tokens.access_token,
     refreshToken |-> IF tokens.refresh_token = Undefined THEN refreshToken
                      ELSE tokens.refresh_token,
     expiresAt |-> DateNow(t) + tokens.expires_in]

\* new Client({accessToken}) or new Client({bearerToken})
Client(kind, token) == [kind |-> kind, token |-> token, wrapped |-> FALSE]

\* wrapClient: the Proxy around the client.
wrapClient(c) == [c EXCEPT !.wrapped = TRUE]

\* Date.now() >= expiresAt - 60_000, with expiresAt = auth.expiresAt ?? 0
Stale_NoMargin(auth, t) ==
    DateNow(t) >= (IF auth.expiresAt = Null THEN 0 ELSE auth.expiresAt)

Stale(auth, t) ==
    DateNow(t) >= (IF auth.expiresAt = Null THEN 0 ELSE auth.expiresAt) - 60

\* What getClient leaves: the client it returns or the error it throws, the
\* config file, and the refresh request it sent, if any.
Threw(file, err) == [client |-> NoClient, error |-> err, file |-> file, did |-> <<>>]

Returned(c, file, did) == [client |-> c, error |-> "none", file |-> file, did |-> did]

\* getClient(accountName) at clock t; answer is what the token endpoint
\* answers if it is asked.
getClient(file, name, t, answer) ==
    LET account == getAccount(file, name)
        auth == account.auth
        request == <<Ev("refreshAccessToken", auth.refreshToken)>>
        result == refreshAccessToken(auth.refreshToken, answer, t)
        updatedAuth == [auth EXCEPT !.accessToken = result.accessToken,
                                    !.refreshToken = result.refreshToken,
                                    !.expiresAt = result.expiresAt]
        saveAs == IF name = Undefined THEN "default" ELSE name
    IN  IF account = NoAccount THEN Threw(file, "NoAccount")
        ELSE IF auth.type = "bearer"
        THEN IF ~Truthy(auth.bearerToken) THEN Threw(file, "EmptyBearerToken")
             ELSE Returned(wrapClient(Client("bearerToken", auth.bearerToken)), file, <<>>)
        ELSE IF auth.type = "oauth2"
        THEN IF ~Truthy(auth.accessToken) THEN Threw(file, "NoAccessToken")
             ELSE IF Stale(auth, t)
             THEN IF ~Truthy(auth.refreshToken) \/ ~Truthy(auth.clientId)
                  THEN Threw(file, "TokenExpired")
                  ELSE IF ~answer.ok
                  THEN [Threw(file, "RefreshFailed") EXCEPT !.did = request]
                  ELSE Returned(wrapClient(Client("accessToken", result.accessToken)),
                                setAccount(file, saveAs, [account EXCEPT !.auth = updatedAuth]),
                                request)
             ELSE Returned(wrapClient(Client("accessToken", auth.accessToken)), file, <<>>)
        ELSE Threw(file, "UnknownAuthType")

\* What the operator may pass as --account, or leave out.
AccountArgs == {Undefined, "default", "work"}

\* A command gets its client.
GetClient(name, answer) ==
    /\ cmd = "none"
    /\ ncmds < MaxCmds
    /\ cmd' = "client"
    /\ ncmds' = ncmds + 1
    /\ accountName' = name
    /\ LET r == getClient(configFile, name, now, answer)
       IN  /\ client' = r.client
           /\ error' = r.error
           /\ configFile' = r.file
           /\ events' = r.did
           /\ pc' = IF r.client = NoClient THEN "threw" ELSE "idle"
    /\ out' = NoOutput
    /\ UNCHANGED <<budgetFile, usageFile, now, tz, callee, endpoint, file0, resp, up, procs>>

\* The process that got its client is over.
ClientExit ==
    /\ cmd = "client"
    /\ cmd' = "none"
    /\ pc' = "idle"
    /\ events' = <<>>
    /\ error' = "none"
    /\ accountName' = Undefined
    /\ client' = NoClient
    /\ UNCHANGED <<budgetFile, usageFile, now, tz, callee, endpoint, ncmds, file0, resp, up,
                   out, procs, configFile>>

(***************************************************************************)
(* resolveAuthenticatedUserId (resolve.ts).                                *)
(***************************************************************************)
\* account?.userId
Cached_Never(account) == FALSE

Cached(account) == account # NoAccount /\ Truthy(account.userId)

\* What a resolution hands to its caller.
UserId(id) == [kind |-> "userId", id |-> id]

\* resolveAuthenticatedUserId(accountName) up to its first wait: the stored
\* identifier is returned, or getClient runs and client.users.getMe is called.
ResolveStart(name, answer) ==
    /\ cmd = "none"
    /\ ncmds < MaxCmds
    /\ cmd' = "resolve"
    /\ ncmds' = ncmds + 1
    /\ accountName' = name
    /\ LET account == getAccount(configFile, name)
           r == getClient(configFile, name, now, answer)
       IN  IF Cached(account)
           THEN /\ out' = UserId(account.userId)
                /\ pc' = "done"
                /\ UNCHANGED <<callee, endpoint, events, error, file0, configFile, client>>
           ELSE /\ out' = NoOutput
                /\ client' = r.client
                /\ configFile' = r.file
                /\ IF r.client = NoClient
                   THEN /\ pc' = "threw"
                        /\ error' = r.error
                        /\ events' = r.did
                        /\ UNCHANGED <<callee, endpoint, file0>>
                   ELSE Intercept("users", "getMe", r.did)
    /\ UNCHANGED <<budgetFile, usageFile, now, tz, resp, up, procs>>

\* result.data?.id of the response.
FetchedUserId(r) == IF r.id THEN "u1" ELSE Undefined

\* result.data?.username of the response.
Usernames == {"xcuser"}

\* After users.getMe returned: the identifier is stored on the account called
\* accountName ?? config.defaultAccount, if there is one, and returned.
ResolveFinish(username) ==
    /\ cmd = "resolve"
    /\ pc = "returned"
    /\ LET userId == FetchedUserId(resp)
           config == loadConfig(configFile)
           name == IF accountName = Undefined THEN config.defaultAccount ELSE accountName
       IN  IF ~Truthy(userId)
           THEN pc' = "threw" /\ error' = "NoUserId" /\ UNCHANGED <<configFile, out>>
           ELSE /\ configFile' =
                       IF name \in DOMAIN config.accounts
                       THEN saveConfig([config EXCEPT !.accounts[name].userId = userId,
                                                      !.accounts[name].username = username])
                       ELSE configFile
                /\ out' = UserId(userId)
                /\ pc' = "done"
                /\ error' = error
    /\ UNCHANGED <<budgetFile, usageFile, now, tz, cmd, callee, endpoint, events, ncmds,
                   file0, resp, up, procs, accountName, client>>

\* The command goes on with the identifier, or reports the error; the process
\* exits.
ResolveExit ==
    /\ cmd = "resolve"
    /\ pc \in {"done", "threw", "failed"}
    /\ cmd' = "none"
    /\ pc' = "idle"
    /\ callee' = NoCallee
    /\ endpoint' = ""
    /\ events' = <<>>
    /\ error' = "none"
    /\ file0' = <<>>
    /\ resp' = NoResponse
    /\ accountName' = Undefined
    /\ client' = NoClient
    /\ UNCHANGED <<budgetFile, usageFile, now, tz, ncmds, up, out, procs, configFile>>

\* Credentials as `xc auth login` and `xc auth token` leave them, and as time
\* or an edit makes them: of a token that is good for two hours, for 61 and
\* for 60 seconds, that expired a second ago, with no expiry; with and without
\* what a refresh needs.
OAuth2(accessToken, refreshToken, expiresAt, clientId) ==
    [type |-> "oauth2", accessToken |-> accessToken, refreshToken |-> refreshToken,
     expiresAt |-> expiresAt, bearerToken |-> Undefined, clientId |-> clientId]

Bearer(bearerToken) ==
    [type |-> "bearer", accessToken |-> Undefined, refreshToken |-> Undefined,
     expiresAt |-> Null, bearerToken |-> bearerToken, clientId |-> Undefined]

CredentialSamples ==
    { OAuth2("at0", "rt0", DateNow(Now0) + 7200, "cid"),
      OAuth2("at0", "rt0", DateNow(Now0) + 61, "cid"),
      OAuth2("at0", "rt0", DateNow(Now0) + 60, "cid"),
      OAuth2("at0", "rt0", DateNow(Now0) - 1, "cid"),
      OAuth2("at0", "rt0", Null, "cid"),
      OAuth2("at0", Undefined, DateNow(Now0) + 59, "cid"),
      OAuth2("at0", "rt0", DateNow(Now0), Undefined),
      OAuth2(Undefined, "rt0", DateNow(Now0) + 7200, "cid"),
      OAuth2("at0", Undefined, DateNow(Now0) + 7200, Undefined),
      Bearer("bt0"), Bearer("") }

Account(name, auth, userId) ==
    [name |-> name, auth |-> auth, userId |-> userId, username |-> Undefined]

\* The account "work" of the samples: its token expired a second ago.
WorkAccount == Account("work", OAuth2("at9", "rt9", DateNow(Now0) - 1, "cid"), Undefined)

\* Config files: the account "default" with any of the credentials, with or
\* without a stored user id, alone or beside the account "work", or the
\* account "work" alone; and either of the two names the default account.
AccountFiles ==
    { [defaultAccount |-> d, accounts |-> a] :
        d \in {"default", "work"},
        a \in { [n \in {"default"} |-> Account(n, c, u)] :
                    c \in CredentialSamples, u \in {Undefined, "u0"} }
              \cup { [n \in {"default", "work"} |->
                        IF n = "default" THEN Account(n, c, u) ELSE WorkAccount] :
                        c \in CredentialSamples, u \in {Undefined, "u0"} }
              \cup { [n \in {"work"} |-> WorkAccount] } }

InitAuth ==
    /\ budgetFile = saveBudget([daily |-> 5, action |-> "block"])
    /\ usageFile = <<>>
    /\ now = Now0
    /\ tz = LocalZone
    /\ configFile \in {<<>>} \cup {saveConfig(c) : c \in AccountFiles}
    /\ Idle

NextAuth ==
    \/ \E name \in AccountArgs, answer \in RefreshAnswers : GetClient(name, answer)
    \/ ClientExit
    \/ \E name \in AccountArgs, answer \in RefreshAnswers : ResolveStart(name, answer)
    \/ LogAndDispatch
    \/ \E r \in Responses(endpoint) : Respond(r)
    \/ \E username \in Usernames : ResolveFinish(username)
    \/ ResolveExit

SpecAuth == InitAuth /\ [][NextAuth]_vars

(***************************************************************************)
(* A process that dies in the middle of appendFileSync.                    *)
(***************************************************************************)
\* What a torn append leaves at the end of the ledger: the beginning of the
\* line, or the whole JSON text without its newline.
TornAppends(ep, t) == { <<JUNK>>, <<NewEntry(ep, t)>> }

\* The process is killed, or the disk is full, while logApiCall writes: part
\* of the line is in the file and the process is gone.
CrashInAppend(torn) ==
    /\ pc = "admitted"
    /\ usageFile' = usageFile \o torn
    /\ cmd' = "none"
    /\ pc' = "idle"
    /\ callee' = NoCallee
    /\ endpoint' = ""
    /\ events' = <<>>
    /\ error' = "none"
    /\ file0' = <<>>
    /\ UNCHANGED <<budgetFile, now, tz, ncmds, resp, up, out, procs,
                   configFile, accountName, client>>

InitCrash ==
    /\ budgetFile \in {<<>>, saveBudget([daily |-> 2000, action |-> "block"])}
    /\ usageFile \in {<<>>, SeedLedger}
    /\ now = Now0
    /\ tz = LocalZone
    /\ configFile = <<>>
    /\ Idle

NextCrash ==
    \/ \E o \in Operations : ApiCommand(o[1], o[2])
    \/ LogAndDispatch
    \/ \E torn \in TornAppends(endpoint, now) : CrashInAppend(torn)
    \/ \E r \in Responses(endpoint) : Respond(r)
    \/ ApiExit

SpecCrash == InitCrash /\ [][NextCrash]_vars

(***************************************************************************)
(* Processes side by side.  Each CLI invocation is a process of its own;   *)
(* the budget file and the ledger file are all they share.  The            *)
(* synchronous part of checkBudget (budget.ts:71-78) and the               *)
(* appendFileSync of logApiCall (cost.ts:69) are each one step.            *)
(***************************************************************************)
\* The rest of the state, which belongs to the one-process scenarios.
OneProcessVars ==
    <<budgetFile, now, tz, cmd, pc, callee, endpoint, events, error, ncmds, file0, resp,
      up, out, configFile, accountName, client>>

\* The process in slot p calls a method of the wrapped client: the wrapper
\* runs up to the end of the synchronous part of checkBudget.
ProcCall(p, ns, op) ==
    /\ procs[p].pc = "idle"
    /\ procs[p].calls < MaxCalls
    /\ LET ep == EndpointOf(ns, op)
           r == checkBudget(ep, budgetFile, usageFile, now, tz)
       IN  procs' = [procs EXCEPT ![p] =
                        [@ EXCEPT !.pc = CASE r.verdict = "admit" -> "admitted"
                                          [] r.verdict = "prompt" -> "prompt"
                                          [] OTHER -> "threw",
                                  !.endpoint = ep,
                                  !.seen = IF NoDaily(loadBudget(budgetFile)) THEN <<>>
                                           ELSE usageFile,
                                  !.error = r.error,
                                  !.calls = @ + 1]]
    /\ UNCHANGED <<usageFile, OneProcessVars>>

\* The operator answers the prompt of the process in slot p.
ProcAnswer(p, answer) ==
    /\ procs[p].pc = "prompt"
    /\ procs' = [procs EXCEPT ![p] =
                    IF confirmPrompt(answer) THEN [@ EXCEPT !.pc = "admitted"]
                    ELSE [@ EXCEPT !.pc = "threw", !.error = "UserCancelled"]]
    /\ UNCHANGED <<usageFile, OneProcessVars>>

\* The process in slot p logs its call and applies the SDK method.
ProcLog(p) ==
    /\ procs[p].pc = "admitted"
    /\ usageFile' = logApiCall(usageFile, procs[p].endpoint, now)
    /\ procs' = [procs EXCEPT ![p] =
                    [@ EXCEPT !.pc = "inflight",
                              !.wrote = Append(@, NewEntry(procs[p].endpoint, now))]]
    /\ UNCHANGED OneProcessVars

\* The process in slot p ends: its call settled or threw.
ProcExit(p) ==
    /\ procs[p].pc \in {"inflight", "threw"}
    /\ procs' = [procs EXCEPT ![p] =
                    [@ EXCEPT !.pc = "idle", !.endpoint = "", !.seen = <<>>,
                              !.error = "none"]]
    /\ UNCHANGED <<usageFile, OneProcessVars>>

\* Two invocations at a time, with 1.99 dollars spent today or nothing, under
\* no budget or under a budget of 2 dollars a day.
InitRace ==
    /\ budgetFile \in { <<>>, saveBudget([daily |-> 2000, action |-> "block"]),
                         saveBudget([daily |-> 2000, action |-> "confirm"]) }
    /\ usageFile \in {<<>>, SeedLedger}
    /\ now = Now0
    /\ tz = LocalZone
    /\ configFile = <<>>
    /\ Idle

NextRace ==
    \/ \E p \in Procs : \E o \in {<<"posts", "create">>, <<"users", "getMe">>} :
           ProcCall(p, o[1], o[2])
    \/ \E p \in Procs : \E a \in {"y", "n"} : ProcAnswer(p, a)
    \/ \E p \in Procs : ProcLog(p)
    \/ \E p \in Procs : ProcExit(p)

SpecRace == InitRace /\ [][NextRace]_vars

(***************************************************************************)
(* Notions the properties are stated in.  They are defined on the files    *)
(* themselves, apart from the program's own functions.                     *)
(***************************************************************************)
Dispatched == {"inflight", "returned", "failed"}
Admitted == {"admitted"} \cup Dispatched
InCall == pc # "idle"

\* The events of the intercepted call under way: those from its "invoke" on.
CallStart == CHOOSE i \in 1..Len(events) :
                 events[i].e = "invoke" /\ \A j \in (i + 1)..Len(events) : events[j].e # "invoke"
CallEvents == SubSeq(events, CallStart, Len(events))
Did(e) == \E i \in 1..Len(CallEvents) : CallEvents[i].e = e
Times(e) == Cardinality({i \in 1..Len(CallEvents) : CallEvents[i].e = e})

\* The entries of a ledger file whose lines are all complete.
RefEntries(file) == SelectSeq(file, LAMBDA tok : tok.k = "rec")

\* The start of the local day: the instant of the last 24 hours at which the
\* local clock showed 0:00.
RefMidnight == CHOOSE m \in (now - DAY + 1)..now : (m + tz) % DAY = 0

RECURSIVE RefSum(_, _)
RefSum(file, S) ==
    IF S = {} THEN 0
    ELSE LET i == CHOOSE j \in S : TRUE
         IN  file[i].estimatedCost + RefSum(file, S \ {i})

\* Today's spend as recorded in a ledger file.
RefToday(file) ==
    RefSum(file, {i \in 1..Len(file) : file[i].k = "rec" /\ file[i].timestamp >= RefMidnight})

LimitSet == budgetFile # <<>> /\ "daily" \in DOMAIN budgetFile[1]
DailyLimit == budgetFile[1].daily
PolicyAction == budgetFile[1].action
CallCost == estimateCost(endpoint)
OverBudget == LimitSet /\ RefToday(file0) + CallCost > DailyLimit

\* The call under way appended exactly one entry, for its operation.
OneEntryAppended ==
    /\ Len(RefEntries(usageFile)) = Len(RefEntries(file0)) + 1
    /\ SubSeq(RefEntries(usageFile), 1, Len(RefEntries(file0))) = RefEntries(file0)
    /\ RefEntries(usageFile)[Len(RefEntries(usageFile))].endpoint = callee.ns \o "." \o callee.op

IsPrefix(s, t) == Len(s) <= Len(t) /\ SubSeq(t, 1, Len(s)) = s

(***************************************************************************)
(* Properties.                                                             *)
(***************************************************************************)
\* C1: with a daily limit, action block and todaySpend + callCost > dailyLimit,
\* the intercepted call fails with BudgetExceeded, the underlying operation is
\* never dispatched and the ledger is left as it was.
C1_BlockRejects ==
    (InCall /\ OverBudget /\ PolicyAction = "block") =>
        /\ pc = "threw"
        /\ error = "BudgetExceeded"
        /\ ~Did("dispatch")
        /\ ~Did("logApiCall")
        /\ usageFile = file0

C1_Witness ==
    /\ InCall /\ OverBudget /\ PolicyAction = "block"
    /\ pc = "threw" /\ error = "BudgetExceeded" /\ file0 # <<>>

\* C2: with a daily limit, a call is admitted without any enforcement action
\* exactly when todaySpend + callCost <= dailyLimit; with limit 2.00, action block
\* and 1.99 spent today a call costing 0.01 is admitted and one costing 0.02 is
\* rejected with BudgetExceeded.
C2_AdmitsUpToLimit ==
    (InCall /\ LimitSet) =>
        /\ (pc \in Admitted /\ ~Did("warn") /\ ~Did("prompt"))
               <=> (RefToday(file0) + CallCost <= DailyLimit)
        /\ (DailyLimit = 2000 /\ PolicyAction = "block" /\ RefToday(file0) = 1990) =>
               /\ CallCost = 10 => pc \in Admitted
               /\ CallCost = 20 => pc = "threw" /\ error = "BudgetExceeded"

C2_Witness ==
    /\ InCall /\ LimitSet /\ DailyLimit = 2000 /\ PolicyAction = "block"
    /\ RefToday(file0) = 1990 /\ CallCost = 10 /\ pc = "returned"

\* C3: with action warn and todaySpend + callCost > dailyLimit the call is
\* admitted: a warning is emitted, the operation is dispatched and one ledger
\* entry is appended.
C3_WarnAdmits ==
    (InCall /\ OverBudget /\ PolicyAction = "warn") =>
        /\ Did("warn")
        /\ pc \in Admitted
        /\ pc \in Dispatched => Times("dispatch") = 1 /\ OneEntryAppended

C3_Witness ==
    /\ InCall /\ OverBudget /\ PolicyAction = "warn"
    /\ Did("warn") /\ pc = "returned" /\ OneEntryAppended

\* C4: with action confirm and an over-budget call, the call stays at the prompt
\* until the operator answers; a declining answer fails it with UserCancelled,
\* with no underlying call and no ledger entry; an accepting answer admits it,
\* and it is dispatched and logged.
Accepting == {"y", "Y"}
Answers == {CallEvents[i].a : i \in {j \in 1..Len(CallEvents) : CallEvents[j].e = "answer"}}

C4_ConfirmWaitsForAnswer ==
    (InCall /\ OverBudget /\ PolicyAction = "confirm") =>
        /\ Did("prompt")
        /\ Answers = {} => pc = "prompt" /\ usageFile = file0 /\ ~Did("dispatch")
        /\ (Answers # {} /\ Answers \cap Accepting = {}) =>
               /\ pc = "threw" /\ error = "UserCancelled"
               /\ usageFile = file0 /\ ~Did("dispatch") /\ ~Did("logApiCall")
        /\ (Answers \cap Accepting # {}) =>
               /\ pc \in Admitted
               /\ pc \in Dispatched => Times("dispatch") = 1 /\ OneEntryAppended

C4_Witness ==
    /\ InCall /\ OverBudget /\ PolicyAction = "confirm"
    /\ Answers = {""} /\ pc = "threw" /\ error = "UserCancelled"

\* C5: when no daily limit is configured, every intercepted call is admitted,
\* whatever the ledger holds and whatever the action is, and the enforcer
\* neither reads the ledger nor warns nor prompts.
C5_NoLimitAdmits ==
    (InCall /\ ~LimitSet) =>
        /\ pc \in Admitted
        /\ error \in {"none", "ApiError"}
        /\ ~Did("loadUsageLog") /\ ~Did("warn") /\ ~Did("prompt")

C5_Witness ==
    /\ InCall /\ budgetFile = <<[action |-> "block"]>>
    /\ RefToday(file0) = 1990 /\ pc = "returned"

\* C6: for every namespace and operation called through the wrapped client the
\* operation identifier is "<namespace>.<operation>", the budget enforcer is
\* consulted before anything else, and each admitted call appends exactly one
\* entry for that identifier, which is there also when the underlying call
\* fails.
C6_InterceptorLogsAdmitted ==
    InCall =>
        /\ endpoint = callee.ns \o "." \o callee.op
        /\ Len(CallEvents) >= 2 /\ CallEvents[2] = Ev("loadBudget", endpoint)
        /\ pc \in Dispatched => Times("logApiCall") = 1 /\ OneEntryAppended
        /\ pc \notin Dispatched => usageFile = file0 /\ ~Did("logApiCall")

C6_Witness ==
    /\ pc = "failed" /\ error = "ApiError" /\ callee = [ns |-> "media", op |-> "upload"]
    /\ OneEntryAppended

\* C8: the ledger is append-only: whatever loadUsageLog returned before a step
\* is a prefix of what it returns after it.
C8_AppendOnly ==
    [][IsPrefix(loadUsageLog(usageFile), loadUsageLog(usageFile'))]_vars

C8_Witness ==
    /\ Len(loadUsageLog(usageFile)) = 3
    /\ loadUsageLog(usageFile)[1].endpoint = "seed.spend"
    /\ loadUsageLog(usageFile)[2].timestamp < loadUsageLog(usageFile)[3].timestamp

\* The well-formed entries of a ledger file, read off the text line by line: a
\* line is well formed when, white space apart, it is exactly one JSON value.
NewlineAt(file) == SelectSeq([i \in 1..Len(file) |-> i], LAMBDA i : file[i].k = "nl")
LineEdges(file) == <<0>> \o NewlineAt(file) \o <<Len(file) + 1>>
RefLine(file, n) == SubSeq(file, LineEdges(file)[n] + 1, LineEdges(file)[n + 1] - 1)
RefInk(line) == {j \in 1..Len(line) : line[j].k # "sp"}
RefWellFormed(line) ==
    Cardinality(RefInk(line)) = 1 /\ \A j \in RefInk(line) : line[j].k \in {"rec", "json"}

RECURSIVE RefLoadFrom(_, _)
RefLoadFrom(file, n) ==
    IF n > Len(LineEdges(file)) - 1 THEN <<>>
    ELSE (IF RefWellFormed(RefLine(file, n))
          THEN <<RefLine(file, n)[CHOOSE j \in RefInk(RefLine(file, n)) : TRUE]>>
          ELSE <<>>) \o RefLoadFrom(file, n + 1)

RefLoad(file) == RefLoadFrom(file, 1)

WindowSamples == { 0, HOUR, HOUR + 1, DAY, WEEK - 1, WEEK, MONTH, MONTH + DAY }

C10_SpendMonotone ==
    /\ LET entries == loadUsageLog(usageFile)
           spend == [w \in WindowSamples |-> computeSpend(entries, w, now)]
       IN  \A w1, w2 \in WindowSamples : w1 <= w2 => spend[w1] <= spend[w2]
    /\ out.kind = "summary" => out.h1 <= out.h24 /\ out.h24 <= out.d7 /\ out.d7 <= out.d30

C10_Witness ==
    /\ out.kind = "summary" /\ out.at = now
    /\ out.h1 < out.h24 /\ out.h24 = out.d7 /\ out.d7 < out.d30

\* The network operations the running process sent, as positions of events.
NetOps == {i \in 1..Len(events) : events[i].e \in {"dispatch", "fetch"}}

\* C7: every outbound API operation a command issues, each APPEND segment of a
\* chunked upload included, passes through the call interceptor: it is
\* budget-checked before it is sent and adds exactly one entry to the ledger.
C7_EveryOperationIntercepted ==
    /\ \A i \in NetOps :
          \E j \in 1..(i - 1) :
              /\ events[j] = Ev("loadBudget", events[i].a)
              /\ \A k \in (j + 1)..(i - 1) : k \notin NetOps
    /\ Cardinality(NetOps) = Cardinality({i \in 1..Len(events) : events[i].e = "logApiCall"})

\* The first APPEND segment of a chunked upload is on the wire, and the ledger
\* holds the one entry of INIT.
C7_Witness ==
    /\ up.pc = "append"
    /\ up.segments = <<0>>
    /\ events[Len(events)] = Ev("fetch", "media.append")
    /\ Len(loadUsageLog(usageFile)) = 1

(***************************************************************************)
(* Properties of the media upload, stated on the extension and the size    *)
(* of the file and on the operations the process sent.                     *)
(***************************************************************************)
\* How many operations named a the running process put on the wire.
Sent(a) == Cardinality({i \in NetOps : events[i].a = a})

StatusQueries == Sent("media.getUploadStatus")

\* The category of an extension, by the documented table.
RefCategory(ext) ==
    IF ext \in {".jpg", ".jpeg", ".png", ".PNG", ".bmp", ".webp", ".tiff"} THEN "Image"
    ELSE IF ext = ".gif" THEN "Gif"
    ELSE IF ext \in {".mp4", ".webm", ".mov", ".ts"} THEN "Video"
    ELSE "none"

\* The size ceiling of a category, in bytes.
RefCeiling(category) ==
    IF category = "Image" THEN 5 * 1024 * 1024
    ELSE IF category = "Gif" THEN 15 * 1024 * 1024
    ELSE 512 * 1024 * 1024

CeilDiv(a, b) == (a + b - 1) \div b

\* C11: a file larger than the ceiling of its category (Image 5 MiB, Gif
\* 15 MiB, Video 512 MiB) is rejected with FileTooLarge before any network
\* call, with nothing dispatched and nothing appended to the ledger; a file of
\* exactly the ceiling is not rejected.
C11_FileTooLargeBeforeNetwork ==
    (cmd = "upload" /\ RefCategory(up.ext) # "none") =>
        IF up.size > RefCeiling(RefCategory(up.ext))
        THEN /\ up.pc = "failed"
             /\ error = "FileTooLarge"
             /\ events = <<>>
             /\ usageFile = <<>>
        ELSE error # "FileTooLarge"

\* A 600 MiB video has been rejected.
C11_Witness ==
    /\ up.ext = ".mp4"
    /\ up.size = 600 * 1024 * 1024
    /\ up.pc = "failed"
    /\ error = "FileTooLarge"

\* C12: the strategy follows the extension: an unsupported extension fails
\* with UnsupportedType before any network call; an Image file is uploaded
\* with exactly one upload call and no INIT, APPEND or FINALIZE; a Gif or Video
\* file goes through INIT, APPEND and FINALIZE and never through the one-shot
\* upload.
C12_StrategyByExtension ==
    cmd = "upload" =>
        /\ RefCategory(up.ext) = "none" =>
               up.pc = "failed" /\ error = "UnsupportedType" /\ events = <<>>
        /\ RefCategory(up.ext) = "Image" =>
               /\ \A i \in NetOps : events[i].a = "media.upload"
               /\ Sent("media.upload") <= 1
               /\ up.pc = "done" => Sent("media.upload") = 1
        /\ RefCategory(up.ext) \in {"Gif", "Video"} =>
               /\ \A i \in NetOps :
                      events[i].a \in {"media.initializeUpload", "media.append",
                                       "media.finalizeUpload", "media.getUploadStatus"}
               /\ Sent("media.initializeUpload") <= 1
               /\ Sent("media.finalizeUpload") <= 1
               /\ Sent("media.append") > 0 => Sent("media.initializeUpload") = 1
               /\ Sent("media.finalizeUpload") > 0 => Sent("media.initializeUpload") = 1
               /\ up.pc = "done" =>
                      /\ Sent("media.finalizeUpload") = 1
                      /\ up.size > 0 => Sent("media.append") > 0

\* A 4 MiB .png went out in one upload call and the upload returned.
C12_Witness ==
    /\ up.ext = ".png"
    /\ up.size = 4 * 1024 * 1024
    /\ up.pc = "done"
    /\ Sent("media.upload") = 1

\* C13: a chunked upload of totalBytes bytes sends the segments 0, 1, ... in
\* increasing order, each index once; bytesSent never exceeds totalBytes; the
\* APPEND loop goes on while bytesSent < totalBytes and is left with
\* bytesSent = totalBytes after ceil(totalBytes / 5 MiB) segments.
C13_SegmentsInOrder ==
    (cmd = "upload" /\ RefCategory(up.ext) \in {"Gif", "Video"}) =>
        /\ up.bytesRead <= up.size
        /\ \A i \in 1..Len(up.segments) : up.segments[i] = i - 1
        /\ Sent("media.append") = Len(up.segments)
        /\ up.pc = "append" => up.bytesRead < up.size
        /\ (up.pc \in {"finalize", "status", "done"} \/ Sent("media.finalizeUpload") > 0) =>
               /\ up.bytesRead = up.size
               /\ Len(up.segments) = CeilDiv(up.size, 5 * 1024 * 1024)

\* A 20 MiB .mp4 has sent the segments 0..3 and is at FINALIZE.
C13_Witness ==
    /\ up.ext = ".mp4"
    /\ up.size = 20 * 1024 * 1024
    /\ up.segments = <<0, 1, 2, 3>>
    /\ up.pc = "finalize"

\* C14: when the first k-1 status answers are pending or in progress and the
\* k-th (k <= 60) is succeeded, the upload succeeds after exactly k status
\* queries and sends no further query.
C14_SucceedsAtKthQuery ==
    /\ [](  (up.pc = "done" /\ endpoint = "media.getUploadStatus" /\ resp.info = "succeeded")
              => (StatusQueries = up.attempts + 1 /\ StatusQueries <= 60) )
    /\ [][ (up.pc = "status" /\ pc = "returned" /\ resp.info = "succeeded")
              => (up'.pc = "done" /\ events' = events /\ error' = error) ]_vars

\* The answers in progress, in progress, succeeded: success after 3 queries.
C14_Witness ==
    /\ up.pc = "done"
    /\ resp.info = "succeeded"
    /\ up.attempts = 2
    /\ StatusQueries = 3

\* C15: the poll loop never sends more than 60 status queries; when the 60th
\* answer is still pending or in progress the upload fails with
\* ProcessingTimeout.
C15_AtMostSixtyQueries ==
    /\ StatusQueries <= 60
    /\ error = "ProcessingTimeout" => (up.pc = "failed" /\ StatusQueries = 60)
    /\ (/\ StatusQueries = 60
        /\ endpoint = "media.getUploadStatus"
        /\ pc = "idle"
        /\ resp.ok
        /\ resp.info \in {"pending", "in_progress"}) =>
           (up.pc = "failed" /\ error = "ProcessingTimeout")

\* Sixty status queries were answered in progress and the upload timed out.
C15_Witness ==
    /\ up.pc = "failed"
    /\ error = "ProcessingTimeout"
    /\ StatusQueries = 60
    /\ resp.info = "in_progress"

\* C16: when a status query reports the state failed, the upload fails at
\* once with ProcessingFailed carrying the message the server reported, sends
\* no further status query and returns no media identifier.
C16_ProcessingFailedAborts ==
    [][ (up.pc = "status" /\ pc = "returned" /\ resp.info = "failed") =>
            /\ up'.pc = "failed"
            /\ events' = events
            /\ resp.message # NoMessage => error' = "ProcessingFailed: " \o resp.message
            /\ error' \notin {"none", "ProcessingTimeout"} ]_vars

\* The server reported "bad codec" and the upload failed with that message.
C16_Witness ==
    /\ up.pc = "failed"
    /\ resp.info = "failed"
    /\ resp.message = "bad codec"
    /\ error = "ProcessingFailed: bad codec"

\* C17: a failed APPEND segment aborts the upload at once: no later segment
\* is sent, FINALIZE is not called, no status query is made, and the upload
\* reports an error instead of a media identifier.
C17_AppendFailureAborts ==
    up.fetched \in {"http", "net"} =>
        /\ up.pc = "failed"
        /\ error \in {"AppendFailed", "NetworkError"}
        /\ events[Len(events)] = Ev("fetch", "media.append")
        /\ Len(up.segments) = up.segmentIndex + 1
        /\ Sent("media.finalizeUpload") = 0
        /\ StatusQueries = 0

\* Segment 1 of a chunked upload was answered with an HTTP error.
C17_Witness ==
    /\ up.fetched = "http"
    /\ up.segments = <<0, 1>>
    /\ up.pc = "failed"
    /\ error = "AppendFailed"

\* C20: validation and budget errors come before any network effect: when a
\* command, a media upload of several operations included, fails with
\* BudgetExceeded, UserCancelled, UnsupportedType or FileTooLarge, it has put
\* no operation on the wire.
C20_ErrorsBeforeNetwork ==
    (cmd # "none" /\ error \in {"BudgetExceeded", "UserCancelled", "UnsupportedType",
                                 "FileTooLarge"}) =>
        NetOps = {}

\* A chunked upload was stopped by the budget after INIT, the segment and
\* FINALIZE went out.
C20_Witness ==
    /\ cmd = "upload"
    /\ up.pc = "failed"
    /\ error = "BudgetExceeded"
    /\ Sent("media.initializeUpload") = 1
    /\ Sent("media.append") = 1
    /\ Sent("media.finalizeUpload") = 1

(***************************************************************************)
(* Properties of processes that run side by side.                          *)
(***************************************************************************)
\* How often e occurs in seq.
Count(seq, e) == Cardinality({i \in 1..Len(seq) : seq[i] = e})

\* The entries the processes appended, and how often each was appended by
\* appends that have returned.
Written == UNION { {procs[p].wrote[i] : i \in 1..Len(procs[p].wrote)} : p \in Procs }
TimesWritten(e) == Count(procs[1].wrote, e) + Count(procs[2].wrote, e)

\* C18: budget checks are read-then-decide with no mutual exclusion: under
\* the action block every admitted call fitted under the limit by the ledger
\* its process read, and yet two invocations side by side can both be admitted
\* and leave today's spend above the daily limit.
C18_EachAdmittedCallFitted ==
    \A p \in Procs :
        (LimitSet /\ PolicyAction = "block" /\ procs[p].pc \in {"admitted", "inflight"}) =>
            RefToday(procs[p].seen) + estimateCost(procs[p].endpoint) <= DailyLimit

\* Both invocations passed the check on the same ledger, both logged, and
\* today's spend is above the limit.
C18_Witness ==
    /\ LimitSet
    /\ PolicyAction = "block"
    /\ \A p \in Procs :
          /\ procs[p].pc = "inflight"
          /\ procs[p].calls = 1
          /\ RefToday(procs[p].seen) + estimateCost(procs[p].endpoint) <= DailyLimit
    /\ procs[1].seen = procs[2].seen
    /\ RefToday(usageFile) > DailyLimit

\* C19: appends of invocations side by side interleave without corruption or
\* loss: loadAll() returns every appended record, intact and as often as it
\* was appended, and nothing else; a loadAll() that starts after an append
\* returned observes that record.
C19_AppendsInterleaveIntact ==
    /\ [](LET loaded == loadUsageLog(usageFile)
              seeded == {i \in 1..Len(loaded) : loaded[i].endpoint = "seed.spend"}
          IN  /\ \A i \in 1..Len(loaded) : i \in seeded \/ loaded[i] \in Written
              /\ \A e \in Written : Count(loaded, e) = TimesWritten(e)
              /\ Len(loaded) =
                     Cardinality(seeded) + Len(procs[1].wrote) + Len(procs[2].wrote))
    /\ [][\A p \in Procs :
             (LimitSet /\ procs[p].pc = "idle" /\ procs'[p].pc # "idle") =>
                 \A e \in Written :
                     Count(loadUsageLog(procs'[p].seen), e) >= TimesWritten(e)]_vars

\* Two invocations appended two records each, turn by turn.
C19_Witness ==
    /\ Len(procs[1].wrote) = 2
    /\ Len(procs[2].wrote) = 2
    /\ procs[1].wrote[1] # procs[2].wrote[1]
    /\ loadUsageLog(usageFile) =
           <<procs[1].wrote[1], procs[2].wrote[1], procs[1].wrote[2], procs[2].wrote[2]>>

(***************************************************************************)
(* Properties of the budget configuration store.                           *)
(***************************************************************************)
\* The documented default: action warn, no daily limit.
DefaultPolicy == [action |-> "warn"]

\* C21: the policy round-trips: getPolicy returns the default {action: warn,
\* no daily limit} when nothing was ever configured; after setPolicy(p) it
\* returns p; after clearPolicy it returns the default again; clearing an
\* absent policy succeeds and changes nothing.
C21_PolicyRoundTrip ==
    /\ [](/\ out.kind = "loadBudget" =>
                /\ out.last.kind = "none" => out.config = DefaultPolicy
                /\ out.last.kind = "saveBudget" => out.config = out.last.config
                /\ out.last.kind = "resetBudget" => out.config = DefaultPolicy
                /\ out.last.kind = "loadBudget" => out.config = out.last.config
          /\ out.kind = "resetBudget" => budgetFile = <<>>)
    /\ [][(budgetFile = <<>> /\ out'.kind = "resetBudget") => budgetFile' = budgetFile]_vars

\* A limit of 2 dollars with block was saved and cleared, and the default is
\* read back.
C21_Witness ==
    /\ out.kind = "loadBudget"
    /\ out.last = [kind |-> "resetBudget", config |-> [daily |-> 2000, action |-> "block"]]
    /\ out.config = DefaultPolicy

(***************************************************************************)
(* Properties of the cost estimator.                                       *)
(***************************************************************************)
\* The documented price list, in thousandths of a dollar, and the documented
\* methods other than GET.
RefPrices ==
    { <<"posts.searchRecent", 10>>, <<"posts.searchAll", 20>>, <<"posts.create", 10>>,
      <<"users.getMe", 5>>, <<"users.getByUsername", 5>>, <<"users.getPosts", 5>>,
      <<"users.getTimeline", 5>>, <<"users.likePost", 5>>, <<"users.unlikePost", 5>>,
      <<"usage.get", 0>> }

RefMethods ==
    { <<"posts.create", "POST">>, <<"users.likePost", "POST">>,
      <<"users.unlikePost", "DELETE">> }

\* C22: the cost estimator is a table lookup: an operation identifier the
\* table does not hold gets the default cost, which is greater than zero, and
\* the method GET; an identifier the table holds gets the table's cost and
\* method, whenever it is asked.
C22_EstimatorIsLookup ==
    out.kind = "estimate" =>
        /\ IF \E pr \in RefPrices : pr[1] = out.endpoint
           THEN <<out.endpoint, out.estimatedCost>> \in RefPrices
           ELSE out.estimatedCost = 5 /\ out.estimatedCost > 0
        /\ IF \E m \in RefMethods : m[1] = out.endpoint
           THEN <<out.endpoint, out.method>> \in RefMethods
           ELSE out.method = "GET"

\* An identifier made of names every object has, which the table does not hold.
C22_Witness ==
    /\ out.kind = "estimate"
    /\ out.endpoint = "constructor.valueOf"
    /\ out.estimatedCost = 5
    /\ out.method = "GET"
    /\ out.at > Now0

(***************************************************************************)
(* Properties of the spend aggregator.                                     *)
(***************************************************************************)
\* The sum of the costs of the records of the ledger written at or after
\* instant t.
RefSince(t) ==
    RefSum(usageFile, {i \in 1..Len(usageFile) :
                          usageFile[i].k = "rec" /\ usageFile[i].timestamp >= t})

\* C23: sumSince(records, W) is the sum of estimatedCost over exactly the
\* records with timestamp >= now - W, the boundary instant included; the same
\* record set, window and clock give the same result again, and computing it
\* changes no state.
C23_SumSinceWindow ==
    /\ [](out.kind = "summary" =>
              /\ out.h1 = RefSince(out.at - 1)
              /\ out.h24 = RefSince(out.at - 24)
              /\ out.d7 = RefSince(out.at - 7 * 24)
              /\ out.d30 = RefSince(out.at - 30 * 24))
    /\ [][/\ usageFile' = usageFile
          /\ budgetFile' = budgetFile
          /\ (out.kind = "summary" /\ out'.kind = "summary" /\ out'.at = out.at) =>
                 out' = out]_vars

\* One record, written exactly one hour before the summary, is in the spend
\* of the last hour.
C23_Witness ==
    /\ out.kind = "summary"
    /\ out.totalRequests = 1
    /\ usageFile[1].timestamp = out.at - 1
    /\ out.h1 = usageFile[1].estimatedCost
    /\ out.h1 > 0

(***************************************************************************)
(* Properties of the stages of a chunked upload.                           *)
(***************************************************************************)
\* C24: a chunked upload returns a media identifier only if every stage
\* succeeded: when FINALIZE returns no identifier or a non-success status the
\* upload fails instead of returning the identifier of INIT.
C24_FinalizeChecked ==
    (cmd = "upload" /\ up.pc = "done" /\ endpoint = "media.finalizeUpload") =>
        (resp.ok /\ resp.id)

\* A .gif upload returned the identifier of INIT although the answer to
\* FINALIZE held none.
C24_Witness ==
    /\ cmd = "upload"
    /\ up.ext = ".gif"
    /\ up.pc = "done"
    /\ endpoint = "media.finalizeUpload"
    /\ resp.ok
    /\ ~resp.id

\* The place of an operation in the protocol.
Stage(a) ==
    CASE a = "media.initializeUpload" -> 1
      [] a = "media.append" -> 2
      [] a = "media.finalizeUpload" -> 3
      [] a = "media.getUploadStatus" -> 4
      [] OTHER -> 0

\* C25: the steps of a chunked upload are totally ordered: INIT once and
\* before any APPEND, every APPEND before the one FINALIZE, FINALIZE before
\* every status query; when INIT returns no media identifier the upload fails
\* with UploadInitFailed and sends nothing more.
C25_StagesInOrder ==
    /\ []((cmd = "upload" /\ RefCategory(up.ext) \in {"Gif", "Video"}) =>
              /\ \A i, j \in NetOps : i < j => Stage(events[i].a) <= Stage(events[j].a)
              /\ \A i \in NetOps : Stage(events[i].a) > 0
              /\ NetOps # {} => Sent("media.initializeUpload") = 1
              /\ Sent("media.finalizeUpload") <= 1
              /\ error = "UploadInitFailed" =>
                     (up.pc = "failed" /\ Cardinality(NetOps) = 1))
    /\ [][(up.pc = "init" /\ pc = "returned" /\ ~resp.id) =>
              (up'.pc = "failed" /\ error' = "UploadInitFailed" /\ events' = events)]_vars

\* A video went through INIT, two segments, FINALIZE and two status queries.
C25_Witness ==
    /\ up.ext = ".mp4"
    /\ up.pc = "done"
    /\ Sent("media.initializeUpload") = 1
    /\ Sent("media.append") = 2
    /\ Sent("media.finalizeUpload") = 1
    /\ StatusQueries = 2

\* C26: after a successful FINALIZE the polling loop is entered exactly when
\* the category is Video or the answer to FINALIZE carries processing
\* information: a Video upload sends at least one status query before it
\* returns, and a Gif upload whose FINALIZE answer carries none returns with no
\* status query.
C26_PollsWhenNeeded ==
    /\ []((cmd = "upload" /\ up.pc = "done") =>
              /\ RefCategory(up.ext) = "Video" => StatusQueries >= 1
              /\ (RefCategory(up.ext) = "Gif" /\ endpoint = "media.finalizeUpload") =>
                     (resp.info = "none" /\ StatusQueries = 0))
    /\ [][(up.pc = "finalize" /\ pc = "returned") =>
              IF RefCategory(up.ext) = "Video" \/ resp.info # "none"
              THEN up'.pc = "status" /\ up'.attempts = 0
              ELSE up'.pc = "done" /\ events' = events]_vars

\* A .gif whose FINALIZE answer announced processing was polled once.
C26_Witness ==
    /\ up.ext = ".gif"
    /\ up.pc = "done"
    /\ endpoint = "media.getUploadStatus"
    /\ StatusQueries = 1

RefPolicy(file) ==
    \/ file = <<>>
    \/ /\ "daily" \in DOMAIN file[1]
       /\ file[1].daily # Null
       /\ file[1].daily > 0
       /\ file[1].action \in {"block", "warn", "confirm"}

\* The text is a decimal numeral, a sign and digits with at most one point,
\* and stands for a number above zero.
RefPositiveAmount(text) ==
    LET trimmed == TrimStart(text)
        body == IF trimmed # <<>> /\ trimmed[1] \in {"+", "-"} THEN Tail(trimmed) ELSE trimmed
        points == {i \in 1..Len(body) : body[i] = "."}
    IN  /\ Cardinality(points) <= 1
        /\ \A i \in (1..Len(body)) \ points : body[i] \in DecimalDigits
        /\ \E i \in 1..Len(body) : body[i] \in DecimalDigits \ {"0"}
        /\ trimmed[1] # "-"

Refreshed(evs) == \E i \in 1..Len(evs) : evs[i].e = "refreshAccessToken"

\* Some account of the config file holds the token material of the answer,
\* with the refresh token kept when the answer brings none.
Persisted(file, answer, oldRefreshToken, t) ==
    \E n \in DOMAIN loadConfig(file).accounts :
        LET stored == loadConfig(file).accounts[n].auth
        IN  /\ stored.accessToken = answer.access_token
            /\ stored.expiresAt = DateNow(t) + answer.expires_in
            /\ stored.refreshToken = IF answer.refresh_token = Undefined THEN oldRefreshToken
                                     ELSE answer.refresh_token

\* C29: getClient for an OAuth2 account never returns a client built from a
\* token that is expired or within 60 seconds of its expiry.  When now >=
\* expiresAt - 60 s, a missing expiresAt counting as expired, a client that is
\* returned was built from the refreshed token after the new token material was
\* persisted, and without a stored refresh token or client id getClient fails
\* and asks for nothing; otherwise the client is built from the stored token,
\* nothing is refreshed and nothing written.  A client that is returned is the
\* wrapped one, whatever the account.
C29_NoStaleClient ==
    [][\A name \in AccountArgs, answer \in RefreshAnswers :
        GetClient(name, answer) =>
            LET account == getAccount(configFile, name)
                auth == account.auth
                expired == auth.expiresAt = Null \/ DateNow(now) >= auth.expiresAt - 60
                returned == client' # NoClient
            IN  /\ returned => client'.wrapped
                /\ (account # NoAccount /\ auth.type = "oauth2") =>
                    /\ (returned /\ expired) =>
                          /\ Refreshed(events')
                          /\ answer.ok
                          /\ client'.token = answer.access_token
                          /\ Persisted(configFile', answer, auth.refreshToken, now)
                    /\ (expired /\ (auth.refreshToken = Undefined \/ auth.clientId = Undefined)) =>
                          /\ ~returned
                          /\ error' # "none"
                          /\ ~Refreshed(events')
                          /\ configFile' = configFile
                    /\ ~expired =>
                          /\ ~Refreshed(events')
                          /\ configFile' = configFile
                          /\ auth.accessToken # Undefined =>
                                returned /\ client'.token = auth.accessToken
                    /\ (returned /\ ~Refreshed(events')) =>
                          DateNow(now) < auth.expiresAt - 60
                    /\ (returned /\ Refreshed(events') /\ answer.expires_in > 60) =>
                          \E n \in DOMAIN loadConfig(configFile').accounts :
                              LET stored == loadConfig(configFile').accounts[n].auth
                              IN  /\ stored.accessToken = client'.token
                                  /\ DateNow(now) < stored.expiresAt - 60]_vars

\* A token with 60 seconds left was refreshed: the client holds the new token
\* and the account the new token material.
C29_Witness ==
    /\ cmd = "client"
    /\ client = wrapClient(Client("accessToken", "at1"))
    /\ Refreshed(events)
    /\ accountName = "default"
    /\ loadConfig(configFile).accounts["default"].auth =
           OAuth2("at1", "rt1", DateNow(now) + 7200, "cid")
    /\ ncmds = 1

\* The calls of users.getMe the running process dispatched.
GetMeCalls == {i \in NetOps : events[i].a = "users.getMe"}

\* C30: resolveAuthenticatedUserId caches the user id.  With a stored userId on
\* the account it returns that id and does nothing else: no budget check, no
\* ledger record, no call.  Otherwise a resolution that returns has sent
\* exactly one users.getMe call, which is in the ledger, and the account it
\* resolved holds the returned id, so that the next resolution for the account
\* finds it.
C30_UserIdCached ==
    /\ [][\A name \in AccountArgs, answer \in RefreshAnswers :
            (/\ ResolveStart(name, answer)
             /\ getAccount(configFile, name) # NoAccount
             /\ getAccount(configFile, name).userId # Undefined)
            => /\ out' = UserId(getAccount(configFile, name).userId)
               /\ pc' = "done"
               /\ events' = <<>>
               /\ usageFile' = usageFile
               /\ configFile' = configFile]_vars
    /\ []((cmd = "resolve" /\ pc = "done" /\ events # <<>>) =>
            /\ Cardinality(GetMeCalls) = 1
            /\ Cardinality(NetOps) = 1
            /\ loadUsageLog(usageFile) =
                   Append(loadUsageLog(file0), NewEntry("users.getMe", now))
            /\ out = UserId("u1")
            /\ getAccount(configFile, accountName) # NoAccount
            /\ getAccount(configFile, accountName).userId = "u1")
    /\ []((cmd = "resolve" /\ pc = "done" /\ events = <<>>) =>
            /\ getAccount(configFile, accountName) # NoAccount
            /\ out = UserId(getAccount(configFile, accountName).userId))

\* The second resolution for the account returned the id the first one had
\* fetched and stored, with no call, while the budget admits no further call.
C30_Witness ==
    /\ cmd = "resolve"
    /\ pc = "done"
    /\ ncmds = 2
    /\ events = <<>>
    /\ out = UserId("u1")
    /\ usageFile = <<NewEntry("users.getMe", now), NL>>

(***************************************************************************)
(* One day and the next under a fixed block policy: API commands one at a  *)
(* time, the clock advancing between them.                                 *)
(***************************************************************************)
\* Ledgers of yesterday's and of today's spend.
DayLedgers ==
    LET yesterday == UsageEntry(Now0 - DAY, "seed.spend", "GET", 1990)
    IN  { <<>>, SeedLedger, <<yesterday, NL>>,
          <<yesterday, NL, UsageEntry(Now0, "seed.spend", "GET", 1980), NL>> }

\* A block policy of two dollars or of two cents a day; today's spend is
\* within the limit when the day's first process starts.
InitDay ==
    /\ budgetFile \in { <<[daily |-> d, action |-> "block"]>> : d \in {2000, 20} }
    /\ usageFile \in DayLedgers
    /\ now = Now0
    /\ tz \in {LocalZone, 0}
    /\ computeTodaySpend(loadUsageLog(usageFile), now, tz) <= loadBudget(budgetFile).daily
    /\ configFile = <<>>
    /\ Idle

NextDay ==
    \/ \E o \in Operations : ApiCommand(o[1], o[2])
    \/ LogAndDispatch
    \/ \E r \in Responses(endpoint) : Respond(r)
    \/ ApiExit
    \/ \E d \in TickSteps : Tick(d)

SpecDay == InitDay /\ [][NextDay]_vars

(***************************************************************************)
(* Properties of the daily budget over a day and across midnight.          *)
(***************************************************************************)
\* C31: under block with an unchanged daily limit, processes one at a time and
\* an initial today-spend within the limit, the ledger's today-spend is within
\* the limit after any sequence of intercepted calls, admitted or rejected.
C31_SpendWithinLimit ==
    /\ LimitSet
    /\ PolicyAction = "block"
    /\ RefToday(usageFile) <= DailyLimit

\* An admitted call brought today's spend to the limit exactly, and the call
\* of the next process was rejected, all within the day the model starts in.
C31_Witness ==
    /\ ncmds = 2
    /\ pc = "threw"
    /\ error = "BudgetExceeded"
    /\ now = Now0
    /\ RefToday(usageFile) = DailyLimit
    /\ \E i \in 1..Len(usageFile) :
           usageFile[i].k = "rec" /\ usageFile[i].endpoint = "posts.searchAll"

\* C33: the daily budget resets at local midnight: an entry stamped before the
\* start of the current local day never counts toward today's spend, so with
\* the policy and the ledger unchanged a call whose cost is within the limit
\* is not rejected once every entry of the ledger lies before that start.
C33_MidnightReset ==
    /\ computeTodaySpend(loadUsageLog(usageFile), now, tz) = RefToday(usageFile)
    /\ (/\ cmd = "api"
        /\ CallCost <= DailyLimit
        /\ \A i \in 1..Len(file0) : file0[i].k = "rec" => file0[i].timestamp < RefMidnight)
       => (pc # "threw" /\ error # "BudgetExceeded")

\* The ledger holds 1.99 dollar of the day before and nothing else, so the
\* first process logged nothing: its call was rejected, which under a limit of
\* two dollars happens before midnight only.  The second process issues the
\* two-cent call after midnight and it is admitted.
C33_Witness ==
    /\ ncmds = 2
    /\ pc = "admitted"
    /\ endpoint = "posts.searchAll"
    /\ DailyLimit = 2000
    /\ tz = LocalZone
    /\ now = Now0 + 8 * HOUR
    /\ file0 = SeedLedger
    /\ usageFile = SeedLedger

(***************************************************************************)
(* Intercepted calls under a stored policy.  loadBudget returns what       *)
(* JSON.parse makes of the file, so the action is whatever the file holds. *)
(***************************************************************************)
\* Policies with a limit of two dollars: the three actions, and two values
\* that are none of them.
StoredPolicies ==
    { <<[daily |-> 2000, action |-> a]>> : a \in VALID_ACTIONS \cup {"stop", "Block"} }

InitStored ==
    /\ budgetFile \in StoredPolicies
    /\ usageFile \in {<<>>, SeedLedger}
    /\ now = Now0
    /\ tz = LocalZone
    /\ configFile = <<>>
    /\ Idle

NextStored ==
    \/ \E o \in Operations : ApiCommand(o[1], o[2])
    \/ \E a \in {"y", "Y", "n", ""} : Answer(a)
    \/ LogAndDispatch
    \/ \E r \in Responses(endpoint) : Respond(r)
    \/ ApiExit

SpecStored == InitStored /\ [][NextStored]_vars

JsonNull == [k |-> "json", v |-> "null"]

\* An object with a cost and no timestamp; an object with a timestamp and no cost.
NoTimestampEntry(c) ==
    [k |-> "json", v |-> "object", endpoint |-> "posts.create", estimatedCost |-> c]
NoCostEntry(ts) ==
    [k |-> "json", v |-> "object", endpoint |-> "posts.create", timestamp |-> ts]

\* entry.name is undefined when the value has no such property.
Has(entry, name) == name \in DOMAIN entry

\* What a sum comes to: a number, NaN, or the TypeError that ended it.
Number(n) == [kind |-> "number", val |-> n]
NotANumber == [kind |-> "NaN", val |-> 0]
TypeError == [kind |-> "TypeError", val |-> 0]

\* total += entry.estimatedCost: a number plus undefined is NaN, and NaN stays.
Plus(total, entry) ==
    IF total.kind = "NaN" \/ ~Has(entry, "estimatedCost") THEN NotANumber
    ELSE Number(total.val + entry.estimatedCost)

\* The loop of computeSpend and of computeTodaySpend over any entries:
\* reading a property of null throws; new Date(undefined).getTime() is NaN,
\* which is not >= cutoff; otherwise the cost is added as it is.  Over
\* records it comes to SpendSince.
RECURSIVE SpendLoop(_, _, _)
SpendLoop(entries, cutoff, total) ==
    IF entries = <<>> THEN total
    ELSE LET entry == Head(entries)
         IN  IF Has(entry, "v") /\ entry.v = "null" THEN TypeError
             ELSE IF ~Has(entry, "timestamp")
             THEN SpendLoop(Tail(entries), cutoff, total)
             ELSE IF entry.timestamp >= cutoff
             THEN SpendLoop(Tail(entries), cutoff, Plus(total, entry))
             ELSE SpendLoop(Tail(entries), cutoff, total)

\* computeSpend(loadUsageLog(), windowMs) in a process of its own.
CallComputeSpend(windowMs) ==
    /\ cmd = "none"
    /\ out' = [kind |-> "spend", cutoff |-> now - windowMs,
               result |-> SpendLoop(loadUsageLog(usageFile), now - windowMs, Number(0))]
    /\ UNCHANGED <<budgetFile, usageFile, now, tz, cmd, pc, callee, endpoint, events,
                   error, ncmds, file0, resp, up, procs,
                   configFile, accountName, client>>

\* computeTodaySpend(loadUsageLog()) in a process of its own.
CallComputeTodaySpend ==
    /\ cmd = "none"
    /\ out' = [kind |-> "spend", cutoff |-> LocalMidnight(now, tz),
               result |-> SpendLoop(loadUsageLog(usageFile), LocalMidnight(now, tz),
                                    Number(0))]
    /\ UNCHANGED <<budgetFile, usageFile, now, tz, cmd, pc, callee, endpoint, events,
                   error, ncmds, file0, resp, up, procs,
                   configFile, accountName, client>>

\* The lines of a ledger file some of whose lines are no records.
LineSamples ==
    { NewEntry("posts.create", Now0), NewEntry("posts.searchAll", Now0 - DAY),
      JsonNull, JSONVAL, JUNK, NoTimestampEntry(10), NoCostEntry(Now0) }

InitTotal ==
    /\ budgetFile = <<>>
    /\ usageFile \in { FileOf(ls) : ls \in UNION { [1..m -> LineSamples] : m \in 0..MaxEntries } }
    /\ now = Now0
    /\ tz = LocalZone
    /\ configFile = <<>>
    /\ Idle

NextTotal ==
    \/ \E w \in {HOUR, DAY, WEEK} : CallComputeSpend(w)
    \/ CallComputeTodaySpend
    \/ \E d \in TickSteps : Tick(d)

SpecTotal == InitTotal /\ [][NextTotal]_vars

\* C34: aggregation is total over whatever loadUsageLog returns: for any ledger
\* file, lines that are valid JSON and no records among them, computing spend
\* does not fail and gives a finite number, the sum over the well-formed
\* records in the window.
C34_AggregationTotal ==
    out.kind = "spend" =>
        /\ out.result.kind = "number"
        /\ out.result.val =
               RefSum(usageFile, {i \in 1..Len(usageFile) :
                                      usageFile[i].k = "rec" /\ usageFile[i].timestamp >= out.cutoff})

\* The ledger holds a record of one cent and the line null: the sum over the
\* last hour ended in a TypeError.
C34_Witness ==
    /\ usageFile = FileOf(<<NewEntry("posts.create", Now0), JsonNull>>)
    /\ out.kind = "spend"
    /\ out.cutoff = Now0 - HOUR
    /\ out.result = TypeError

\* The statement without the lines that are valid JSON and no records: over
\* records and lines JSON.parse rejects, the sum is the number it should be.
C34_RecordsOnly ==
    (/\ out.kind = "spend"
     /\ \A i \in 1..Len(usageFile) : usageFile[i].k \in {"rec", "nl", "junk"})
    => /\ out.result.kind = "number"
       /\ out.result.val = SpendSince(loadUsageLog(usageFile), out.cutoff)
       /\ out.result.val =
              RefSum(usageFile, {i \in 1..Len(usageFile) :
                                     usageFile[i].k = "rec" /\ usageFile[i].timestamp >= out.cutoff})

(***************************************************************************)
(* Properties of the records the interceptor writes.                       *)
(***************************************************************************)
\* The documented price and method of an operation identifier.
RefPrice(ep) ==
    IF \E pr \in RefPrices : pr[1] = ep
    THEN (CHOOSE pr \in RefPrices : pr[1] = ep)[2]
    ELSE 5

RefMethod(ep) ==
    IF \E pm \in RefMethods : pm[1] = ep
    THEN (CHOOSE pm \in RefMethods : pm[1] = ep)[2]
    ELSE "GET"

\* The sum over all records of a ledger file.
RefTotal(file) == RefSum(file, {i \in 1..Len(file) : file[i].k = "rec"})

\* C35: every record the program writes equals the table lookups for its
\* operation: endpoint is the operation identifier, method its method,
\* estimatedCost its estimate, which is not negative; so the total of the
\* ledger grows by exactly the estimate of each admitted call and never
\* decreases.
C35_RecordsAreLookups ==
    /\ [][usageFile' # usageFile =>
            LET ep == callee.ns \o "." \o callee.op
            IN  /\ pc = "admitted" /\ pc' = "inflight"
                /\ usageFile' = usageFile \o
                       <<[k |-> "rec", timestamp |-> now, endpoint |-> ep,
                          method |-> RefMethod(ep), estimatedCost |-> RefPrice(ep)], NL>>
                /\ RefPrice(ep) >= 0
                /\ RefTotal(usageFile') = RefTotal(usageFile) + RefPrice(ep)]_vars
    /\ [][RefTotal(usageFile') >= RefTotal(usageFile)]_vars
    /\ [][(pc = "admitted" /\ pc' # "admitted") => usageFile' # usageFile]_vars

\* Two processes were admitted, one with an operation of the table and one
\* with an operation at the default cost: the ledger grew by both estimates.
C35_Witness ==
    /\ ncmds = 2
    /\ pc = "returned"
    /\ usageFile = SeedLedger \o
           <<UsageEntry(Now0, "posts.create", "POST", 10), NL,
             UsageEntry(Now0, "media.upload", "GET", 5), NL>>
    /\ RefTotal(usageFile) = 1990 + 10 + 5

(***************************************************************************)
(* The day-by-day breakdown of `xc cost --daily`.                          *)
(***************************************************************************)
\* entry.timestamp.slice(0, 10): the date of the ISO text, which toISOString
\* writes in UTC; dates are numbered by the days since the epoch.
ISODate(ts) == ts \div DAY

\* byDay.set(date, (byDay.get(date) ?? 0) + entry.estimatedCost), entry by entry.
RECURSIVE GroupByDay(_, _)
GroupByDay(entries, byDay) ==
    IF entries = <<>> THEN byDay
    ELSE LET date == ISODate(Head(entries).timestamp)
             sofar == IF date \in DOMAIN byDay THEN byDay[date] ELSE 0
         IN  GroupByDay(Tail(entries),
                        (date :> sofar + Head(entries).estimatedCost) @@ byDay)

\* [...byDay.entries()].sort((a, b) => b[0].localeCompare(a[0])): latest date first.
RECURSIVE SortedByDate(_)
SortedByDate(byDay) ==
    IF DOMAIN byDay = {} THEN <<>>
    ELSE LET latest == CHOOSE date \in DOMAIN byDay : \A other \in DOMAIN byDay : other <= date
         IN  <<[date |-> latest, total |-> byDay[latest]]>> \o
             SortedByDate([date \in DOMAIN byDay \ {latest} |-> byDay[date]])

\* xc cost --daily: one line per date, or the message that nothing is recorded.
CostDaily ==
    /\ cmd = "none"
    /\ LET entries == loadUsageLog(usageFile)
       IN  IF Len(entries) = 0
           THEN out' = [kind |-> "empty"]
           ELSE out' = [kind |-> "daily", lines |-> SortedByDate(GroupByDay(entries, <<>>)),
                        at |-> now]
    /\ UNCHANGED <<budgetFile, usageFile, now, tz, cmd, pc, callee, endpoint, events,
                   error, ncmds, file0, resp, up, procs,
                   configFile, accountName, client>>

\* Entries of the last hours, on either side of the local and the UTC midnight.
DailySamples ==
    { NewEntry(ep, Now0 - age) : ep \in {"users.getMe", "posts.searchAll"},
                                  age \in {0, 2 * HOUR, 18 * HOUR, DAY + 2 * HOUR} }

\* Ledgers of up to MaxEntries such entries, in a zone behind UTC, at UTC or
\* ahead of UTC.
InitDaily ==
    /\ budgetFile = <<>>
    /\ usageFile \in { FileOf(es) : es \in UNION { [1..m -> DailySamples] : m \in 0..MaxEntries } }
    /\ now = Now0
    /\ tz \in {LocalZone, 0, 9}
    /\ configFile = <<>>
    /\ Idle

NextDaily ==
    \/ CostDaily
    \/ \E d \in TickSteps : Tick(d)

SpecDaily == InitDaily /\ [][NextDaily]_vars

\* The total a breakdown gives for a date: nothing printed counts as nothing.
RECURSIVE RefLineTotal(_, _)
RefLineTotal(lines, date) ==
    IF lines = <<>> THEN 0
    ELSE (IF Head(lines).date = date THEN Head(lines).total ELSE 0)
         + RefLineTotal(Tail(lines), date)

RECURSIVE RefLinesSum(_)
RefLinesSum(lines) ==
    IF lines = <<>> THEN 0 ELSE Head(lines).total + RefLinesSum(Tail(lines))

\* The date the local calendar shows at clock t.
RefLocalDate(t) == (t + tz) \div DAY

\* C36: the day-by-day breakdown and the budget agree on what today is: for
\* any ledger and any zone offset, the total the breakdown gives for the
\* current date equals today's spend as the budget computes it, and the daily
\* totals add up to the sum over all ledger records.
C36_DailyAgreesWithToday ==
    out.kind = "daily" =>
        /\ RefLineTotal(out.lines, RefLocalDate(out.at)) =
               computeTodaySpend(loadUsageLog(usageFile), out.at, tz)
        /\ RefLinesSum(out.lines) = RefTotal(usageFile)

\* Five hours behind UTC at 16:00 local time, with one record of two cents
\* stamped 22:00 local time of the day before, which is 3:00 UTC of today: the
\* breakdown puts the two cents on today's date, and today's spend is nothing.
C36_Witness ==
    /\ tz = LocalZone
    /\ out.kind = "daily"
    /\ out.at = Now0
    /\ usageFile = FileOf(<<NewEntry("posts.searchAll", Now0 - 18 * HOUR)>>)
    /\ RefLineTotal(out.lines, RefLocalDate(out.at)) = 20
    /\ RefLineTotal(out.lines, ISODate(out.at)) = 20
    /\ computeTodaySpend(loadUsageLog(usageFile), out.at, tz) = 0

\* What holds of the breakdown: the lines are one per UTC date, latest first,
\* each the sum over the records of that date, and they add up to the sum over
\* all records; at offset zero the line of the current date is today's spend.
C36_DailyByUTCDate ==
    out.kind = "daily" =>
        /\ RefLinesSum(out.lines) = RefTotal(usageFile)
        /\ \A i \in 1..Len(out.lines) :
               /\ out.lines[i].total =
                      RefSum(usageFile, {j \in 1..Len(usageFile) :
                                             /\ usageFile[j].k = "rec"
                                             /\ usageFile[j].timestamp \div DAY = out.lines[i].date})
               /\ \A j \in (i + 1)..Len(out.lines) : out.lines[j].date < out.lines[i].date
        /\ tz = 0 => RefLineTotal(out.lines, RefLocalDate(out.at)) =
                        computeTodaySpend(loadUsageLog(usageFile), out.at, tz)

(***************************************************************************)
(* Properties of the account a refresh is stored on.                       *)
(***************************************************************************)
\* The name getAccount resolves an --account argument to.
RefResolved(file, name) == IF name = Undefined THEN loadConfig(file).defaultAccount ELSE name

\* C37: when getClient refreshes an OAuth2 token, the new token material is
\* stored on the account whose credentials were resolved for the call, also
\* when no account name is passed and the default account has another name:
\* the next getClient for that account reads the refreshed tokens, and no
\* other account is created or changed.
C37_RefreshStoredOnResolvedAccount ==
    [][\A name \in AccountArgs, answer \in RefreshAnswers :
        (GetClient(name, answer) /\ Refreshed(events') /\ client' # NoClient) =>
            LET before == loadConfig(configFile).accounts
                after == loadConfig(configFile').accounts
                resolved == RefResolved(configFile, name)
            IN  /\ DOMAIN after = DOMAIN before
                /\ after[resolved].auth.accessToken = answer.access_token
                /\ after[resolved].auth.expiresAt = DateNow(now) + answer.expires_in
                /\ \A n \in DOMAIN before \ {resolved} : after[n] = before[n]
                /\ getAccount(configFile', name).auth.accessToken = answer.access_token]_vars

\* No name was passed and the default account is "work", whose token had
\* expired: the refreshed tokens are on an account "default", and "work" still
\* holds the expired token and the refresh token that was used.
C37_Witness ==
    /\ cmd = "client"
    /\ accountName = Undefined
    /\ Refreshed(events)
    /\ client = wrapClient(Client("accessToken", "at1"))
    /\ loadConfig(configFile).defaultAccount = "work"
    /\ "default" \in DOMAIN loadConfig(configFile).accounts
    /\ loadConfig(configFile).accounts["default"].name = "work"
    /\ loadConfig(configFile).accounts["default"].auth.accessToken = "at1"
    /\ loadConfig(configFile).accounts["work"] = WorkAccount
    /\ getAccount(configFile, accountName) = WorkAccount

\* The statement for the calls it holds of: the name is passed, or the
\* default account is called "default".
C37_RefreshStoredWhenNamed ==
    [][\A name \in AccountArgs, answer \in RefreshAnswers :
        (/\ GetClient(name, answer) /\ Refreshed(events') /\ client' # NoClient
         /\ (name # Undefined \/ loadConfig(configFile).defaultAccount = "default")) =>
            LET before == loadConfig(configFile).accounts
                after == loadConfig(configFile').accounts
                resolved == RefResolved(configFile, name)
            IN  /\ DOMAIN after = DOMAIN before
                /\ after[resolved].auth.accessToken = answer.access_token
                /\ \A n \in DOMAIN before \ {resolved} : after[n] = before[n]
                /\ getAccount(configFile', name).auth.accessToken = answer.access_token]_vars

(***************************************************************************)
(* Termination of an upload.  Every call on the network settles and the    *)
(* operator answers every prompt, so a step of the upload under way that   *)
(* stays possible is taken at last.                                        *)
(***************************************************************************)
\* The steps of an upload under way: the answers it waits for and what it
\* does with them.
UploadStep ==
    \/ \E a \in {"y", "n"} : Answer(a)
    \/ LogAndDispatch
    \/ \E r \in Responses(endpoint) : Respond(r)
    \/ AfterOneShot
    \/ AfterInit
    \/ \E r \in {"ok", "http", "net"} : AppendResponse(r)
    \/ AfterFinalize
    \/ AfterStatus

\* One upload process: an image, a video and a file that is no media, empty,
\* of one byte, of two segments and too large.
NextUploadFair ==
    \/ \E e \in {".png", ".mp4", ".exe"}, n \in {0, 1, 5 * MiB + 1, 600 * MiB},
          a \in AuthSamples : UploadStart(e, n, a)
    \/ UploadStep
    \/ UploadExit

SpecUploadFair == InitUpload /\ [][NextUploadFair]_vars /\ WF_vars(UploadStep)

\* C38: every upload ends with a media identifier or an error, provided each
\* call on the network returns and the operator answers every prompt: each
\* APPEND iteration strictly increases the bytes sent and never passes the
\* size of the file, and the poll loop goes round again only on a pending or
\* in-progress answer and with fewer than 60 attempts behind it.
C38_UploadTerminates ==
    /\ (cmd = "upload") ~> (cmd = "upload" /\ up.pc \in {"done", "failed"})
    /\ [](up.pc = "failed" => error # "none")
    /\ [](up.pc = "done" => error = "none" /\ up.bytesRead \in {0, up.size})
    /\ [](up.attempts <= maxAttempts /\ up.bytesRead <= up.size)
    /\ [][(up.pc = "append" /\ up'.pc \in {"append", "finalize"}) =>
            up'.bytesRead > up.bytesRead]_vars
    /\ [][(up.pc = "status" /\ up'.pc = "status" /\ up' # up) =>
            /\ resp.info \in {"pending", "in_progress"}
            /\ up'.attempts = up.attempts + 1
            /\ up'.attempts < maxAttempts]_vars

\* A video of two segments under a confirming budget: both segments were
\* sent, every prompt was accepted, 59 status queries were answered pending
\* or in progress and the sixtieth succeeded.
C38_Witness ==
    /\ cmd = "upload"
    /\ up.pc = "done"
    /\ up.size = 5 * MiB + 1
    /\ up.bytesRead = up.size
    /\ up.segments = <<0, 1>>
    /\ up.attempts = maxAttempts - 1
    /\ resp.info = "succeeded"
    /\ budgetFile = saveBudget([daily |-> 10, action |-> "confirm"])

====
